---- MODULE Spec2Model ----
(***************************************************************************)
(* Reconciliation engine of debox: per-section change detection            *)
(* (core/hash_utils.py), the action plan and its ordered execution         *)
(* (commands/apply_cmd.py), repair (commands/repair_cmd.py), the configure  *)
(* operation (commands/configure_cmd.py, core/config.py), install          *)
(* (commands/install_cmd.py) and remove (commands/remove_cmd.py).          *)
(*                                                                         *)
(* One application directory is modelled.  Its files are the variables     *)
(* config (config.yml), stateFile (.last_applied_state.json), statusFile   *)
(* (.installation_status) and needsApply (.needs_apply); configDir and     *)
(* home tell whether the directory and the isolated home exist.  The       *)
(* container engine, the registry and the desktop integrator are the       *)
(* variables container, image and integration; every call into them has a  *)
(* nondeterministic outcome.  built_from records the image section the     *)
(* local image was built from.                                             *)
(*                                                                         *)
(* Spec runs the commands one after the other; CoreSpec is Spec without    *)
(* install and remove; RaceSpec lets a configure process run between the   *)
(* steps of an apply process; HashSpec plans one apply run over documents  *)
(* written by hand; EditSpec runs configure with lists of updates that      *)
(* revert themselves or fail; NetSpec adds network allow and network deny  *)
(* (commands/network_cmd.py) to CoreSpec.                                  *)
(*                                                                         *)
(* HostSpec runs run (commands/run_cmd.py), image restore                  *)
(* (core/container_ops.py) and the post-install hooks (core/lifecycle.py)  *)
(* over the run state of the container, status.  RegistrySpec runs image   *)
(* rm and image prune (commands/image_cmd.py) over the registry and the    *)
(* state files of the application and of the base image.                   *)
(***************************************************************************)
EXTENDS Integers, Sequences, FiniteSets, TLC

\* ------------------------------------------------------------------------
\* Bounds
\* ------------------------------------------------------------------------
\* number of commands in one behaviour
MaxCommands == 3

\* ------------------------------------------------------------------------
\* Configuration documents
\* ------------------------------------------------------------------------
\* A value of the document is a record [kind, items]: kind "absent" (the key
\* is not in the document), "null" (YAML null), "map" (a mapping, items is
\* the sequence of <<key, value>> pairs in insertion order) or "str" (a
\* scalar).  A value inside a section is the text of its JSON rendering:
\* the boolean True is "true", the string a is "\"a\"".  The value of a key
\* of MAP_KEYS is itself a mapping: the sequence of its <<key, value>> pairs.
\* The value of a key of LIST_KEYS is a list: the sequence of its values.
Absent == [kind |-> "absent", items |-> <<>>]
Null == [kind |-> "null", items |-> <<>>]
EmptyMap == [kind |-> "map", items |-> <<>>]
Str == [kind |-> "str", items |-> <<>>]
MapOf(items) == [kind |-> "map", items |-> items]

SECTIONS_TO_HASH == {"image", "storage", "runtime", "integration", "permissions"}
TopKeys == {"app_name", "container_name", "export"} \cup SECTIONS_TO_HASH

\* keys that occur inside sections and inside the mappings of a section,
\* with their rank in sorted order
SectionKeys == {"base", "desktop_integration", "network", "volumes", "aliases", "gpu",
                "packages", "x", "y"}
KeyRank == [k \in SectionKeys |->
              CASE k = "aliases" -> 1
                [] k = "base" -> 2
                [] k = "desktop_integration" -> 3
                [] k = "gpu" -> 4
                [] k = "network" -> 5
                [] k = "packages" -> 6
                [] k = "volumes" -> 7
                [] k = "x" -> 8
                [] k = "y" -> 9]

\* the keys of a section that hold a mapping, and those that hold a list
MAP_KEYS == {"aliases"}
LIST_KEYS == {"packages"}

\* dict.get(key, default) on the top level of the document
ConfigGet(config, key, default) ==
  IF config[key].kind = "absent" THEN default ELSE config[key]

\* lookup of a key in the pairs of a mapping; <<>> when the key is missing
RECURSIVE ItemsGet(_, _)
ItemsGet(items, key) ==
  IF items = <<>> THEN <<>>
  ELSE IF Head(items)[1] = key THEN <<Head(items)[2]>>
  ELSE ItemsGet(Tail(items), key)

\* parent[final_key] = value on a Python dict: an existing key keeps its
\* position, a new key is appended
RECURSIVE ItemsSet(_, _, _)
ItemsSet(items, key, value) ==
  IF items = <<>> THEN << <<key, value>> >>
  ELSE IF Head(items)[1] = key THEN << <<key, value>> >> \o Tail(items)
  ELSE <<Head(items)>> \o ItemsSet(Tail(items), key, value)

\* ------------------------------------------------------------------------
\* Digests (core/hash_utils.py)
\* ------------------------------------------------------------------------
\* A digest is the sequence of tokens that is hashed: SHA-256 is taken to be
\* collision free, so two digests are equal exactly when the hashed bytes
\* are.  The digest of the empty byte string is <<>>.
NoneDigest == <<"None">>

\* the pairs of a mapping in the order json.dumps(sort_keys=True) writes them
RECURSIVE SortItems(_)
SortItems(items) ==
  IF items = <<>> THEN <<>>
  ELSE LET i == CHOOSE j \in 1..Len(items) :
                  \A l \in 1..Len(items) : KeyRank[items[j][1]] <= KeyRank[items[l][1]]
           rest == [n \in 1..(Len(items) - 1) |-> IF n < i THEN items[n] ELSE items[n + 1]]
       IN <<items[i]>> \o SortItems(rest)

\* the text of a mapping's pairs; sorted tells whether sort_keys is set, and
\* it is handed down to the mappings inside
RECURSIVE Tokens(_, _)
Tokens(items, sorted) ==
  IF items = <<>> THEN <<>>
  ELSE LET ordered == IF sorted THEN SortItems(items) ELSE items
           k == Head(ordered)[1]
           v == Head(ordered)[2]
       IN <<k, ":">> \o
          (IF k \in MAP_KEYS THEN <<"{">> \o Tokens(v, sorted) \o <<"}">>
           ELSE IF k \in LIST_KEYS THEN <<"[">> \o v \o <<"]">>
           ELSE <<v>>) \o
          (IF Tail(ordered) = <<>> THEN <<>> ELSE <<",">>) \o Tokens(Tail(ordered), sorted)

\* json.dumps without sort_keys: the pairs in insertion order
JsonDumps_InsertionOrder(data) ==
  IF data.kind = "map" THEN <<"{">> \o Tokens(data.items, FALSE) \o <<"}">>
  ELSE IF data.kind = "null" THEN <<"null">>
  ELSE <<"str">>

JsonDumps(data) ==
  IF data.kind = "map" THEN <<"{">> \o Tokens(data.items, TRUE) \o <<"}">>
  ELSE IF data.kind = "null" THEN <<"null">>
  ELSE <<"str">>

_calculate_section_hash(section_data) ==
  IF section_data.kind = "null" THEN <<>> ELSE JsonDumps(section_data)

\* int_conf.get(...) raises AttributeError when the integration key holds null
CalculateHashesRaises(config) ==
  ConfigGet(config, "integration", EmptyMap).kind # "map"

HashKeys == {"image", "storage", "runtime", "permissions", "integration", "integration_critical"}

\* the image digest taken over the image and the export section together
calculate_hashes_ImageWithExport(config) ==
  LET int_conf == ConfigGet(config, "integration", EmptyMap)
      di == ItemsGet(int_conf.items, "desktop_integration")
      critical_data == MapOf(<< <<"desktop_integration", IF di = <<>> THEN "true" ELSE di[1]>> >>)
  IN [k \in HashKeys |->
        IF k = "integration" THEN _calculate_section_hash(int_conf)
        ELSE IF k = "integration_critical" THEN _calculate_section_hash(critical_data)
        ELSE IF k = "image" THEN _calculate_section_hash(ConfigGet(config, k, EmptyMap))
                                   \o _calculate_section_hash(ConfigGet(config, "export", EmptyMap))
        ELSE _calculate_section_hash(ConfigGet(config, k, EmptyMap))]

\* the critical digest with a switch that is off when the key is not there
calculate_hashes_CriticalDefaultOff(config) ==
  LET int_conf == ConfigGet(config, "integration", EmptyMap)
      di == ItemsGet(int_conf.items, "desktop_integration")
      critical_data == MapOf(<< <<"desktop_integration", IF di = <<>> THEN "false" ELSE di[1]>> >>)
  IN [k \in HashKeys |->
        IF k = "integration" THEN _calculate_section_hash(int_conf)
        ELSE IF k = "integration_critical" THEN _calculate_section_hash(critical_data)
        ELSE _calculate_section_hash(ConfigGet(config, k, EmptyMap))]

\* the critical digest taken over the whole integration section
calculate_hashes_CriticalIsFull(config) ==
  LET int_conf == ConfigGet(config, "integration", EmptyMap)
  IN [k \in HashKeys |->
        IF k \in {"integration", "integration_critical"} THEN _calculate_section_hash(int_conf)
        ELSE _calculate_section_hash(ConfigGet(config, k, EmptyMap))]

calculate_hashes(config) ==
  LET int_conf == ConfigGet(config, "integration", EmptyMap)
      di == ItemsGet(int_conf.items, "desktop_integration")
      critical_data == MapOf(<< <<"desktop_integration", IF di = <<>> THEN "true" ELSE di[1]>> >>)
  IN [k \in HashKeys |->
        IF k = "integration" THEN _calculate_section_hash(int_conf)
        ELSE IF k = "integration_critical" THEN _calculate_section_hash(critical_data)
        ELSE _calculate_section_hash(ConfigGet(config, k, EmptyMap))]

\* ------------------------------------------------------------------------
\* The last-applied-state record (.last_applied_state.json)
\* ------------------------------------------------------------------------
STATE_KEY_REGISTRY_DIGEST == "registry_digest"
StateKeys == HashKeys \cup {STATE_KEY_REGISTRY_DIGEST}
\* marks a key that is not in the JSON object
Missing == <<"missing">>
EmptyHashes == [k \in StateKeys |-> Missing]
\* digests the registry hands out for a pushed image
RegistryDigests == {<<"sha256:1">>, <<"sha256:2">>}

\* kind "absent": no file; "corrupt": a file json.load rejects; "nonobject":
\* a file holding JSON that is not an object ([] or null); "map": an object
NoStateFile == [kind |-> "absent", hashes |-> EmptyHashes]
CorruptStateFile == [kind |-> "corrupt", hashes |-> EmptyHashes]
NonObjectStateFile == [kind |-> "nonobject", hashes |-> EmptyHashes]

\* dict.get(key): None for a key that is not there
Get(hashes, key) == IF hashes[key] = Missing THEN NoneDigest ELSE hashes[key]

\* json.load's value is returned as it is; for a file that is not an object
\* it has no get method, see SavedHashesGetRaises
get_last_applied_hashes(file) ==
  IF file.kind = "absent" THEN EmptyHashes
  ELSE IF file.kind = "corrupt" THEN EmptyHashes
  ELSE file.hashes

\* saved_hashes.get(...) raises AttributeError on a list or on None
SavedHashesGetRaises(file) == file.kind = "nonobject"

\* outcome of writing the record: "ok", "open_fails" (the file is left as it
\* was) or "dump_fails" (the file was truncated by open and is left unparsable)
WriteOutcomes == {"ok", "open_fails", "dump_fails"}

\* a record written without the integration_critical digest
save_last_applied_hashes_NoCritical(file, hashes, w) ==
  IF w = "ok" THEN [kind |-> "map", hashes |-> [hashes EXCEPT !["integration_critical"] = Missing]]
  ELSE IF w = "open_fails" THEN file
  ELSE CorruptStateFile

save_last_applied_hashes(file, hashes, w) ==
  IF w = "ok" THEN [kind |-> "map", hashes |-> hashes]
  ELSE IF w = "open_fails" THEN file
  ELSE CorruptStateFile

\* removal that leaves the file in place
remove_needs_apply_flag_Kept(flag) == flag

\* the .needs_apply file after touch / after unlink
create_needs_apply_flag(flag) == TRUE

remove_needs_apply_flag(flag) == FALSE

STATUS_INSTALLED == "INSTALLED"
STATUS_NOT_INSTALLED == "NOT_INSTALLED"

get_installation_status(file) ==
  IF file = STATUS_INSTALLED THEN STATUS_INSTALLED ELSE STATUS_NOT_INSTALLED

\* ------------------------------------------------------------------------
\* The action plan (commands/apply_cmd.py)
\* ------------------------------------------------------------------------
\* a comparison that takes a digest that was never saved for an unchanged one
Changed_MissingIsUnchanged(current_hashes, saved_hashes, k) ==
  saved_hashes[k] # Missing /\ current_hashes[k] # saved_hashes[k]

Changed(current_hashes, saved_hashes, k) == current_hashes[k] # Get(saved_hashes, k)

\* the chain with do_rebuild left out of do_recreate
Plan_RecreateWithoutRebuild(current_hashes, saved_hashes) ==
  LET image_changed == Changed(current_hashes, saved_hashes, "image")
      storage_changed == Changed(current_hashes, saved_hashes, "storage")
      runtime_changed == Changed(current_hashes, saved_hashes, "runtime")
      permissions_changed == Changed(current_hashes, saved_hashes, "permissions")
      integration_any_changed == Changed(current_hashes, saved_hashes, "integration")
      integration_critical_changed == Changed(current_hashes, saved_hashes, "integration_critical")
      do_rebuild == image_changed
      do_recreate == storage_changed \/ runtime_changed
                       \/ permissions_changed \/ integration_critical_changed
      do_reintegrate == do_recreate \/ integration_any_changed
  IN [rebuild |-> do_rebuild, recreate |-> do_recreate, reintegrate |-> do_reintegrate]

\* the chain with the permissions section left out of do_recreate
Plan_NoPermissions(current_hashes, saved_hashes) ==
  LET image_changed == Changed(current_hashes, saved_hashes, "image")
      storage_changed == Changed(current_hashes, saved_hashes, "storage")
      runtime_changed == Changed(current_hashes, saved_hashes, "runtime")
      integration_any_changed == Changed(current_hashes, saved_hashes, "integration")
      integration_critical_changed == Changed(current_hashes, saved_hashes, "integration_critical")
      do_rebuild == image_changed
      do_recreate == do_rebuild \/ storage_changed \/ runtime_changed
                       \/ integration_critical_changed
      do_reintegrate == do_recreate \/ integration_any_changed
  IN [rebuild |-> do_rebuild, recreate |-> do_recreate, reintegrate |-> do_reintegrate]

\* the chain with the permissions section counted as a change of the image
Plan_PermissionsRebuild(current_hashes, saved_hashes) ==
  LET image_changed == Changed(current_hashes, saved_hashes, "image")
      storage_changed == Changed(current_hashes, saved_hashes, "storage")
      runtime_changed == Changed(current_hashes, saved_hashes, "runtime")
      permissions_changed == Changed(current_hashes, saved_hashes, "permissions")
      integration_any_changed == Changed(current_hashes, saved_hashes, "integration")
      integration_critical_changed == Changed(current_hashes, saved_hashes, "integration_critical")
      do_rebuild == image_changed \/ permissions_changed
      do_recreate == do_rebuild \/ storage_changed \/ runtime_changed
                       \/ integration_critical_changed
      do_reintegrate == do_recreate \/ integration_any_changed
  IN [rebuild |-> do_rebuild, recreate |-> do_recreate, reintegrate |-> do_reintegrate]

Plan(current_hashes, saved_hashes) ==
  LET image_changed == Changed(current_hashes, saved_hashes, "image")
      storage_changed == Changed(current_hashes, saved_hashes, "storage")
      runtime_changed == Changed(current_hashes, saved_hashes, "runtime")
      permissions_changed == Changed(current_hashes, saved_hashes, "permissions")
      integration_any_changed == Changed(current_hashes, saved_hashes, "integration")
      integration_critical_changed == Changed(current_hashes, saved_hashes, "integration_critical")
      do_rebuild == image_changed
      do_recreate == do_rebuild \/ storage_changed \/ runtime_changed
                       \/ permissions_changed \/ integration_critical_changed
      do_reintegrate == do_recreate \/ integration_any_changed
  IN [rebuild |-> do_rebuild, recreate |-> do_recreate, reintegrate |-> do_reintegrate]

NoPlan == [rebuild |-> FALSE, recreate |-> FALSE, reintegrate |-> FALSE]
IsNoOp(p) == ~p.rebuild /\ ~p.recreate /\ ~p.reintegrate

\* ------------------------------------------------------------------------
\* configure (core/config.py, commands/configure_cmd.py)
\* ------------------------------------------------------------------------
ValueStrs == {"true", "false", "True", "a", "b"}
Lower == [v \in ValueStrs |-> IF v = "True" THEN "true" ELSE v]
Quoted == [v \in ValueStrs |->
             CASE v = "a" -> "'a'" [] v = "b" -> "'b'" [] v = "true" -> "'true'"
               [] v = "false" -> "'false'" [] v = "True" -> "'True'"]

\* the JSON rendering of the value _convert_type returns
_convert_type(value_str) ==
  IF Lower[value_str] = "true" THEN "true"
  ELSE IF Lower[value_str] = "false" THEN "false"
  ELSE Quoted[value_str]

\* the values of set_map updates, and what value_str.split('=', 1) makes of them
MapValueStrs == {"x=a", "y=b"}
SplitKey == [v \in MapValueStrs |-> IF v = "x=a" THEN "x" ELSE "y"]
SplitValue == [v \in MapValueStrs |-> IF v = "x=a" THEN "a" ELSE "b"]

\* An update "section.key:action:value" after configure_app has split it.
Update(section, key, action, value) ==
  [section |-> section, key |-> key, action |-> action, value |-> value]

Updates ==
  { Update("image", "base", "set", "a"),
    Update("image", "base", "set", "b"),
    Update("storage", "volumes", "set", "a"),
    Update("runtime", "gpu", "set", "True"),
    Update("permissions", "network", "set", "false"),
    Update("permissions", "network", "set", "true"),
    Update("integration", "aliases", "set_map", "x=a"),
    Update("integration", "desktop_integration", "set", "false"),
    Update("image", "base", "bogus", "a") }

UpdateLists == {<<>>} \cup {<<u>> : u \in Updates}
                 \cup {<<Update("image", "base", "set", "b"), Update("image", "base", "bogus", "a")>>}

\* x in list
Contains(list, x) == \E i \in 1..Len(list) : list[i] = x

\* list.remove(x): the list without the first x
RECURSIVE RemoveFirst(_, _)
RemoveFirst(list, x) ==
  IF list = <<>> THEN <<>>
  ELSE IF Head(list) = x THEN Tail(list)
  ELSE <<Head(list)>> \o RemoveFirst(Tail(list), x)

\* del target_map[key]
RECURSIVE ItemsDel(_, _)
ItemsDel(items, key) ==
  IF items = <<>> THEN <<>>
  ELSE IF Head(items)[1] = key THEN Tail(items)
  ELSE <<Head(items)>> \o ItemsDel(Tail(items), key)

\* TRUE when update_config_value raises KeyError, TypeError or ValueError.
\* set, add and set_map create a section that is not there and raise on one
\* that is not a mapping; remove, unset_map and an action that is not known
\* raise on both.  The documents of the model hold lists under the keys of
\* LIST_KEYS and mappings under those of MAP_KEYS only, so add and remove on
\* another key and set_map and unset_map on another key find a value of the
\* wrong type.
UpdateRaises(config, u) ==
  LET creates == u.action \in {"set", "add", "set_map"}
      parent == ConfigGet(config, u.section, EmptyMap)
      found == ItemsGet(parent.items, u.key)
  IN \/ u.action \notin {"set", "add", "remove", "set_map", "unset_map"}
     \/ config[u.section].kind \notin (IF creates THEN {"absent", "map"} ELSE {"map"})
     \/ u.action = "add" /\ u.key \notin LIST_KEYS
     \/ u.action = "remove" /\
          \/ found = <<>>
          \/ u.key \notin LIST_KEYS
          \/ ~Contains(found[1], _convert_type(u.value)) /\ ~Contains(found[1], Quoted[u.value])
     \/ u.action = "set_map" /\ (u.key \notin MAP_KEYS \/ u.value \notin MapValueStrs)
     \/ u.action = "unset_map" /\
          \/ found = <<>>
          \/ u.key \notin MAP_KEYS
          \/ ItemsGet(found[1], u.value) = <<>>

\* the document after update_config_value(config, "section.key", action, value)
update_config_value(config, u) ==
  LET parent == ConfigGet(config, u.section, EmptyMap)
      found == ItemsGet(parent.items, u.key)
      target == IF found = <<>> THEN <<>> ELSE found[1]
      value ==
        CASE u.action = "set_map" ->
               ItemsSet(target, SplitKey[u.value], Quoted[SplitValue[u.value]])
          [] u.action = "unset_map" -> ItemsDel(target, u.value)
          [] u.action = "add" -> Append(target, _convert_type(u.value))
          [] u.action = "remove" ->
               IF Contains(target, _convert_type(u.value))
               THEN RemoveFirst(target, _convert_type(u.value))
               ELSE RemoveFirst(target, Quoted[u.value])
          [] OTHER -> _convert_type(u.value)
  IN [config EXCEPT ![u.section] = MapOf(ItemsSet(parent.items, u.key, value))]

\* the loop of configure_app over its updates: the document after the updates
\* that were applied, and whether one of them raised
RECURSIVE ApplyUpdates(_, _)
ApplyUpdates(config, updates) ==
  IF updates = <<>> THEN [config |-> config, raised |-> FALSE]
  ELSE IF UpdateRaises(config, Head(updates)) THEN [config |-> config, raised |-> TRUE]
  ELSE ApplyUpdates(update_config_value(config, Head(updates)), Tail(updates))

\* load_config raises ValueError when a required key is not in the document
LoadConfigRaises(config) ==
  \E key \in {"app_name", "container_name", "image"} : config[key].kind = "absent"

\* ------------------------------------------------------------------------
\* State
\* ------------------------------------------------------------------------
VARIABLES
  configDir,       \* TRUE when the application directory with its config.yml exists
  config,          \* config.yml of the application
  stateFile,       \* .last_applied_state.json
  statusFile,      \* .installation_status: "absent", "INSTALLED" or "NOT_INSTALLED"
  needsApply,      \* TRUE when the .needs_apply file exists
  container,       \* TRUE when the container instance exists
  image,           \* TRUE when the local image exists
  built_from,      \* digest of the image section the local image was built from
  integration,     \* TRUE when desktop integration artifacts exist
  home,            \* TRUE when the isolated home directory exists
  pc,              \* position of the running command, "idle" between commands
  plan,            \* do_rebuild, do_recreate, do_reintegrate of the apply run
  current_hashes,  \* current_hashes of the run
  current_config,  \* the document the run has loaded
  image_digest,    \* image_digest of the apply run
  calls,           \* collaborator calls of the last command, in order, with outcome
  pre,             \* the files as they were when the last command started
  last,            \* the last command that ended, and how
  nCommands,       \* commands started so far
  status,          \* State that podman reports for the container instance
  registry,        \* digest of the image manifest in the local registry, or None
  imageDir,        \* TRUE when a base-image directory bears the name
  imageState,      \* .last_applied_state.json of the base-image directory
  returncode,      \* app_process.returncode of the last run
  before           \* container, image and registry as the last command found them

files == <<config, stateFile, statusFile, needsApply>>
world == <<container, image, built_from, integration>>
dirs == <<configDir, home>>
locals == <<plan, current_hashes, current_config, image_digest>>
host == <<status, registry, imageDir, imageState, returncode, before>>
vars == <<configDir, config, stateFile, statusFile, needsApply, container, image, built_from,
          integration, home, pc, plan, current_hashes, current_config, image_digest, calls,
          pre, last, nCommands, status, registry, imageDir, imageState, returncode, before>>

\* the positions of an apply run and of a repair run
ApplyPcs == {"a_remove_integration", "a_remove_container", "a_remove_image", "a_build",
             "a_push", "a_create_container", "a_add_integration", "a_finalize"}
RepairPcs == {"r_remove_integration", "r_remove_container", "r_create_container",
              "r_add_integration", "r_finalize"}

Call(name, ok) == [call |-> name, ok |-> ok]
Ended(op, outcome, exit, write) == [op |-> op, outcome |-> outcome, exit |-> exit, write |-> write]
\* the document of a directory without config.yml
NoConfig == [k \in TopKeys |-> Absent]
\* the directories and files as a command finds them, with the command's
\* input: the document given to install, the --purge switch of remove, the
\* updates given to configure
Started(doc, purge) ==
  [configDir |-> configDir, config |-> config, stateFile |-> stateFile,
   statusFile |-> statusFile, needsApply |-> needsApply, home |-> home,
   doc |-> doc, purge |-> purge, updates |-> <<>>]
Snapshot == Started(NoConfig, FALSE)

\* container, local image, registry and base-image record at a command's start
Found ==
  [container |-> container, status |-> status, image |-> image, registry |-> registry,
   imageState |-> imageState]

\* before any command has looked
NoFound ==
  [container |-> FALSE, status |-> "exited", image |-> FALSE, registry |-> NoneDigest,
   imageState |-> NoStateFile]

\* no base image, nothing in the registry, a container that is not running
HostInit ==
  /\ status = "exited"
  /\ registry = NoneDigest
  /\ imageDir = FALSE
  /\ imageState = NoStateFile
  /\ returncode = 0
  /\ before = NoFound

\* the document install_app copies into the application directory
BaseConfig ==
  [k \in TopKeys |->
     IF k \in {"app_name", "container_name"} THEN Str
     ELSE IF k = "image" THEN MapOf(<< <<"base", "'a'">> >>)
     ELSE IF k = "permissions" THEN MapOf(<< <<"network", "true">> >>)
     ELSE Absent]

\* a document without the image key, and one whose image section has no base
NoImageConfig == [BaseConfig EXCEPT !["image"] = Absent]
NoBaseConfig == [BaseConfig EXCEPT !["image"] = EmptyMap]

\* config.yml is written by the user: as installed, or with the image section
\* deleted since
InitConfigs == {BaseConfig, NoImageConfig}
\* the state file is read as it is found: none, or one whose JSON is not an object
InitStateFiles == {NoStateFile, NonObjectStateFile}
\* the documents given to install
InstallDocs == {BaseConfig, NoImageConfig, NoBaseConfig}

\* install_app has copied the document and, when it got that far, built the
\* image, created the container (and with it the isolated home directory)
\* and exported the desktop files; it writes neither the state record, nor
\* the status marker, nor the flag.
Init ==
  /\ configDir = TRUE
  /\ config \in InitConfigs
  /\ stateFile \in InitStateFiles
  /\ statusFile = "absent"
  /\ needsApply = FALSE
  /\ \E installed \in BOOLEAN :
       /\ container = installed /\ image = installed /\ integration = installed
       /\ home = installed
       /\ built_from = IF installed THEN calculate_hashes(BaseConfig)["image"] ELSE NoneDigest
  /\ pc = "idle"
  /\ plan = NoPlan
  /\ current_hashes = calculate_hashes(config)
  /\ current_config = config
  /\ image_digest = NoneDigest
  /\ calls = <<>>
  /\ pre = Snapshot
  /\ last = Ended("none", "none", 0, "none")
  /\ nCommands = 0
  /\ HostInit

\* ------------------------------------------------------------------------
\* configure
\* ------------------------------------------------------------------------
\* a configure that saves what it has applied when an update fails
ConfigureApp_SavesOnHalt(lists) ==
  /\ pc = "idle"
  /\ nCommands < MaxCommands
  /\ nCommands' = nCommands + 1
  /\ \E updates \in lists :
       LET r == ApplyUpdates(config, updates)
           modified == updates # <<>>
       IN /\ pre' = [Snapshot EXCEPT !.updates = updates]
          /\ IF ~configDir
             THEN /\ last' = Ended("configure", "no_config", 1, "none")
                  /\ UNCHANGED <<config, needsApply>>
             ELSE IF LoadConfigRaises(config)
             THEN /\ last' = Ended("configure", "halted", 1, "none")
                  /\ UNCHANGED <<config, needsApply>>
             ELSE IF r.raised
             THEN /\ config' = r.config
                  /\ last' = Ended("configure", "halted", 1, "none")
                  /\ UNCHANGED needsApply
             ELSE IF modified
             THEN /\ config' = r.config
                  /\ needsApply' = create_needs_apply_flag(needsApply)
                  /\ last' = Ended("configure", "saved", 0, "none")
             ELSE /\ last' = Ended("configure", "unmodified", 0, "none")
                  /\ UNCHANGED <<config, needsApply>>
  /\ calls' = <<>>
  /\ plan' = NoPlan
  /\ image_digest' = NoneDigest
  /\ UNCHANGED <<stateFile, statusFile, world, dirs, pc, current_hashes, current_config, host>>

\* configure_app with one of the given lists of updates
ConfigureApp(lists) ==
  /\ pc = "idle"
  /\ nCommands < MaxCommands
  /\ nCommands' = nCommands + 1
  /\ \E updates \in lists :
       LET r == ApplyUpdates(config, updates)
           modified == updates # <<>>
       IN /\ pre' = [Snapshot EXCEPT !.updates = updates]
          /\ IF ~configDir
             THEN \* sys.exit(1): no directory or no config.yml
                  /\ last' = Ended("configure", "no_config", 1, "none")
                  /\ UNCHANGED <<config, needsApply>>
             ELSE IF LoadConfigRaises(config) \/ r.raised
             THEN /\ last' = Ended("configure", "halted", 1, "none")
                  /\ UNCHANGED <<config, needsApply>>
             ELSE IF modified
             THEN /\ config' = r.config
                  /\ needsApply' = create_needs_apply_flag(needsApply)
                  /\ last' = Ended("configure", "saved", 0, "none")
             ELSE /\ last' = Ended("configure", "unmodified", 0, "none")
                  /\ UNCHANGED <<config, needsApply>>
  /\ calls' = <<>>
  /\ plan' = NoPlan
  /\ image_digest' = NoneDigest
  /\ UNCHANGED <<stateFile, statusFile, world, dirs, pc, current_hashes, current_config, host>>

configure_app == ConfigureApp(UpdateLists)

\* ------------------------------------------------------------------------
\* apply (commands/apply_cmd.py)
\* ------------------------------------------------------------------------
\* run_step with fatal = True turns a failure of its body into sys.exit(1).
\* SystemExit is not an Exception, so the handler of apply_changes that
\* creates the flag does not see it: the process ends with the files as
\* they are.
ApplyExits ==
  /\ pc' = "idle"
  /\ last' = Ended("apply", "step_failed", 1, "none")

\* loading, hashing, planning; the no-op plan ends the run here
apply_changes ==
  /\ pc = "idle"
  /\ nCommands < MaxCommands
  /\ nCommands' = nCommands + 1
  /\ pre' = Snapshot
  /\ calls' = <<>>
  /\ image_digest' = NoneDigest
  /\ IF ~configDir
     THEN \* log_error(exit_program=True): the SystemExit passes the handler
          /\ pc' = "idle"
          /\ last' = Ended("apply", "no_config", 1, "none")
          /\ UNCHANGED <<needsApply, plan, current_hashes, current_config>>
     ELSE IF LoadConfigRaises(config) \/ CalculateHashesRaises(config)
               \/ SavedHashesGetRaises(stateFile)
     THEN \* except Exception: create the flag, exit
          /\ needsApply' = create_needs_apply_flag(needsApply)
          /\ pc' = "idle"
          /\ last' = Ended("apply", "raised", 1, "none")
          /\ UNCHANGED <<plan, current_hashes, current_config>>
     ELSE LET saved_hashes == get_last_applied_hashes(stateFile)
              hashes == calculate_hashes(config)
              p == Plan(hashes, saved_hashes)
          IN /\ current_config' = config
             /\ current_hashes' = hashes
             /\ plan' = p
             /\ IF IsNoOp(p)
                THEN /\ needsApply' = remove_needs_apply_flag(needsApply)
                     /\ pc' = "idle"
                     /\ last' = Ended("apply", "noop", 0, "none")
                ELSE /\ pc' = "a_remove_integration"
                     /\ UNCHANGED <<needsApply, last>>
  /\ UNCHANGED <<config, stateFile, statusFile, world, dirs, host>>

\* 3a: remove_desktop_integration logs a failure as a warning and returns
apply_remove_desktop_integration ==
  /\ pc = "a_remove_integration"
  /\ IF plan.reintegrate
     THEN \E ok \in BOOLEAN :
            /\ calls' = Append(calls, Call("remove_integration", ok))
            /\ integration' = IF ok THEN FALSE ELSE integration
     ELSE UNCHANGED <<calls, integration>>
  /\ pc' = "a_remove_container"
  /\ UNCHANGED <<files, container, image, built_from, locals, dirs, pre, last, nCommands, host>>

\* 3b followed by 3d: the container is created before the image is rebuilt
apply_remove_container_instance_CreateFirst ==
  /\ pc = "a_remove_container"
  /\ IF plan.recreate
     THEN \E ok \in BOOLEAN :
            /\ calls' = Append(calls, Call("remove_container", ok))
            /\ container' = IF ok THEN FALSE ELSE container
     ELSE UNCHANGED <<calls, container>>
  /\ pc' = "a_create_container"
  /\ UNCHANGED <<files, image, built_from, integration, locals, dirs, pre, last, nCommands, host>>

\* 3b: remove_container_instance logs a failure as a warning and returns
apply_remove_container_instance ==
  /\ pc = "a_remove_container"
  /\ IF plan.recreate
     THEN \E ok \in BOOLEAN :
            /\ calls' = Append(calls, Call("remove_container", ok))
            /\ container' = IF ok THEN FALSE ELSE container
     ELSE UNCHANGED <<calls, container>>
  /\ pc' = IF plan.rebuild THEN "a_remove_image" ELSE "a_create_container"
  /\ UNCHANGED <<files, image, built_from, integration, locals, dirs, pre, last, nCommands, host>>

\* 3c: remove_container_image logs a failure as a warning and returns
apply_remove_container_image ==
  /\ pc = "a_remove_image"
  /\ \E ok \in BOOLEAN :
       /\ calls' = Append(calls, Call("remove_image", ok))
       /\ image' = IF ok THEN FALSE ELSE image
       /\ built_from' = IF ok THEN NoneDigest ELSE built_from
  /\ pc' = "a_build"
  /\ UNCHANGED <<files, container, integration, locals, dirs, pre, last, nCommands, host>>

\* _generate_containerfile reads config['image']['base']: without it the
\* build step fails before podman is called
HasBaseImage(cfg) ==
  cfg["image"].kind = "map" /\ ItemsGet(cfg["image"].items, "base") # <<>>
BuildOutcomes(cfg) == IF HasBaseImage(cfg) THEN BOOLEAN ELSE {FALSE}

\* 3c with a failed build logged and not re-raised
apply_build_container_image_NoRaise ==
  /\ pc = "a_build"
  /\ \E ok \in BuildOutcomes(current_config) :
       /\ calls' = Append(calls, Call("build", ok))
       /\ image' = IF ok THEN TRUE ELSE image
       /\ built_from' = IF ok THEN current_hashes["image"] ELSE built_from
       /\ pc' = "a_push"
  /\ UNCHANGED <<files, container, integration, locals, dirs, pre, last, nCommands, host>>

\* 3c: build_container_image re-raises a failed build
apply_build_container_image ==
  /\ pc = "a_build"
  /\ \E ok \in BuildOutcomes(current_config) :
       /\ calls' = Append(calls, Call("build", ok))
       /\ IF ok
          THEN /\ image' = TRUE
               /\ built_from' = current_hashes["image"]
               /\ pc' = "a_push"
               /\ UNCHANGED last
          ELSE /\ ApplyExits
               /\ UNCHANGED <<image, built_from>>
  /\ UNCHANGED <<files, container, integration, locals, dirs, pre, nCommands, host>>

\* a push that writes the digest of the pushed image into the record at once
apply_push_image_to_registry_SavesDigest ==
  /\ pc = "a_push"
  /\ \E ok \in BOOLEAN :
       /\ calls' = Append(calls, Call("push", ok))
       /\ IF ok
          THEN /\ \E d \in RegistryDigests :
                    /\ image_digest' = d
                    /\ stateFile' = save_last_applied_hashes(stateFile,
                         [get_last_applied_hashes(stateFile)
                            EXCEPT ![STATE_KEY_REGISTRY_DIGEST] = d], "ok")
               /\ pc' = "a_create_container"
               /\ UNCHANGED last
          ELSE /\ ApplyExits
               /\ UNCHANGED <<image_digest, stateFile>>
  /\ UNCHANGED <<config, statusFile, needsApply, world, plan, current_hashes, current_config, dirs, pre, nCommands, host>>

\* 3c: push_image_to_registry exits on a failed push
apply_push_image_to_registry ==
  /\ pc = "a_push"
  /\ \E ok \in BOOLEAN :
       /\ calls' = Append(calls, Call("push", ok))
       /\ IF ok
          THEN /\ \E d \in RegistryDigests : image_digest' = d
               /\ pc' = "a_create_container"
               /\ UNCHANGED last
          ELSE /\ ApplyExits
               /\ UNCHANGED image_digest
  /\ UNCHANGED <<files, world, plan, current_hashes, current_config, dirs, pre, nCommands, host>>

\* the engine creates a container only from an existing image and under a free
\* name; _generate_podman_flags has made the isolated home directory before
CreateOutcomes == IF image /\ ~container THEN BOOLEAN ELSE {FALSE}

\* 3d: create_container_instance re-raises a failed creation
apply_create_container_instance ==
  /\ pc = "a_create_container"
  /\ IF plan.recreate
     THEN \E ok \in CreateOutcomes :
            /\ calls' = Append(calls, Call("create", ok))
            /\ IF ok
               THEN /\ container' = TRUE
                    /\ pc' = "a_add_integration"
                    /\ UNCHANGED last
               ELSE /\ ApplyExits
                    /\ UNCHANGED container
     ELSE /\ pc' = "a_add_integration"
          /\ UNCHANGED <<calls, container, last>>
  /\ home' = (home \/ plan.recreate)
  /\ UNCHANGED <<files, image, built_from, integration, locals, configDir, pre, nCommands, host>>

\* desktop_integration of the document: True when the key is not there
DesktopIntegrationEnabled(cfg) ==
  LET di == ItemsGet(ConfigGet(cfg, "integration", EmptyMap).items, "desktop_integration")
  IN di = <<>> \/ di[1] # "false"

\* add_desktop_integration: a failure of the export is logged and swallowed;
\* only a failure of the final "podman stop" leaves the function as an
\* exception.  body = FALSE: the export failed; stop = FALSE: the stop failed.
AddIntegrationEffect(cfg, body) ==
  IF DesktopIntegrationEnabled(cfg) /\ body THEN TRUE ELSE integration

\* 3e
apply_add_desktop_integration ==
  /\ pc = "a_add_integration"
  /\ IF plan.reintegrate
     THEN \E body \in BOOLEAN, stop \in BOOLEAN :
            /\ calls' = Append(calls, Call("add_integration", body /\ stop))
            /\ integration' = AddIntegrationEffect(current_config, body)
            /\ IF stop
               THEN pc' = "a_finalize" /\ UNCHANGED last
               ELSE ApplyExits
     ELSE /\ pc' = "a_finalize"
          /\ UNCHANGED <<calls, integration, last>>
  /\ UNCHANGED <<files, container, image, built_from, locals, dirs, pre, nCommands, host>>

\* 4 without the carry-forward: the record gets the digest of this run's push
apply_finalize_NoCarry ==
  /\ pc = "a_finalize"
  /\ \E w \in WriteOutcomes, status_ok \in BOOLEAN :
       LET hashes == [k \in StateKeys |->
                        IF k = STATE_KEY_REGISTRY_DIGEST THEN image_digest ELSE current_hashes[k]]
       IN /\ image_digest' = image_digest
          /\ stateFile' = save_last_applied_hashes(stateFile, hashes, w)
          /\ IF status_ok
             THEN /\ statusFile' = STATUS_INSTALLED
                  /\ needsApply' = remove_needs_apply_flag(needsApply)
                  /\ last' = Ended("apply", "finalized", 0, w)
             ELSE /\ last' = Ended("apply", "status_failed", 1, w)
                  /\ UNCHANGED <<statusFile, needsApply>>
  /\ pc' = "idle"
  /\ UNCHANGED <<config, world, plan, current_hashes, current_config, calls, dirs, pre, nCommands, host>>

\* 4: the record, the status, the flag.  A failed write of the record is
\* logged and the function goes on; a failed write of the status exits.
apply_finalize ==
  /\ pc = "a_finalize"
  /\ \E w \in WriteOutcomes, status_ok \in BOOLEAN :
       LET old_state == get_last_applied_hashes(stateFile)
           digest == IF image_digest # NoneDigest THEN image_digest
                     ELSE Get(old_state, STATE_KEY_REGISTRY_DIGEST)
           hashes == [k \in StateKeys |->
                        IF k = STATE_KEY_REGISTRY_DIGEST THEN digest ELSE current_hashes[k]]
       IN /\ image_digest' = digest
          /\ stateFile' = save_last_applied_hashes(stateFile, hashes, w)
          /\ IF status_ok
             THEN /\ statusFile' = STATUS_INSTALLED
                  /\ needsApply' = remove_needs_apply_flag(needsApply)
                  /\ last' = Ended("apply", "finalized", 0, w)
             ELSE /\ last' = Ended("apply", "status_failed", 1, w)
                  /\ UNCHANGED <<statusFile, needsApply>>
  /\ pc' = "idle"
  /\ UNCHANGED <<config, world, plan, current_hashes, current_config, calls, dirs, pre, nCommands, host>>

\* ------------------------------------------------------------------------
\* repair (commands/repair_cmd.py)
\* ------------------------------------------------------------------------
\* repair_app catches the SystemExit of a failed step and returns
RepairExits ==
  /\ pc' = "idle"
  /\ last' = Ended("repair", "step_failed", 0, "none")

\* a repair that starts its steps without looking for the image
repair_app_NoImageCheck ==
  /\ pc = "idle"
  /\ nCommands < MaxCommands
  /\ nCommands' = nCommands + 1
  /\ pre' = Snapshot
  /\ calls' = <<>>
  /\ plan' = NoPlan
  /\ image_digest' = NoneDigest
  /\ IF ~configDir
     THEN /\ pc' = "idle"
          /\ last' = Ended("repair", "no_config", 0, "none")
     ELSE IF LoadConfigRaises(config)
     THEN /\ pc' = "idle"
          /\ last' = Ended("repair", "raised", 1, "none")
     ELSE /\ pc' = "r_remove_integration"
          /\ UNCHANGED last
  /\ current_config' = IF ~configDir \/ LoadConfigRaises(config) THEN current_config ELSE config
  /\ UNCHANGED <<files, world, dirs, current_hashes, host>>

\* loading the document and looking for the image
repair_app ==
  /\ pc = "idle"
  /\ nCommands < MaxCommands
  /\ nCommands' = nCommands + 1
  /\ pre' = Snapshot
  /\ calls' = <<>>
  /\ plan' = NoPlan
  /\ image_digest' = NoneDigest
  /\ IF ~configDir
     THEN \* log_error(exit_program=True), caught by except SystemExit
          /\ pc' = "idle"
          /\ last' = Ended("repair", "no_config", 0, "none")
     ELSE IF LoadConfigRaises(config)
     THEN /\ pc' = "idle"
          /\ last' = Ended("repair", "raised", 1, "none")
     ELSE IF ~image
     THEN /\ pc' = "idle"
          /\ last' = Ended("repair", "no_image", 0, "none")
     ELSE /\ pc' = "r_remove_integration"
          /\ UNCHANGED last
  /\ current_config' = IF ~configDir \/ LoadConfigRaises(config) THEN current_config ELSE config
  /\ UNCHANGED <<files, world, dirs, current_hashes, host>>

repair_remove_desktop_integration ==
  /\ pc = "r_remove_integration"
  /\ \E ok \in BOOLEAN :
       /\ calls' = Append(calls, Call("remove_integration", ok))
       /\ integration' = IF ok THEN FALSE ELSE integration
  /\ pc' = "r_remove_container"
  /\ UNCHANGED <<files, container, image, built_from, locals, dirs, pre, last, nCommands, host>>

repair_remove_container_instance ==
  /\ pc = "r_remove_container"
  /\ \E ok \in BOOLEAN :
       /\ calls' = Append(calls, Call("remove_container", ok))
       /\ container' = IF ok THEN FALSE ELSE container
  /\ pc' = "r_create_container"
  /\ UNCHANGED <<files, image, built_from, integration, locals, dirs, pre, last, nCommands, host>>

repair_create_container_instance ==
  /\ pc = "r_create_container"
  /\ \E ok \in CreateOutcomes :
       /\ calls' = Append(calls, Call("create", ok))
       /\ IF ok
          THEN /\ container' = TRUE
               /\ pc' = "r_add_integration"
               /\ UNCHANGED last
          ELSE /\ RepairExits
               /\ UNCHANGED container
  /\ home' = TRUE
  /\ UNCHANGED <<files, image, built_from, integration, locals, configDir, pre, nCommands, host>>

repair_add_desktop_integration ==
  /\ pc = "r_add_integration"
  /\ \E body \in BOOLEAN, stop \in BOOLEAN :
       /\ calls' = Append(calls, Call("add_integration", body /\ stop))
       /\ integration' = AddIntegrationEffect(current_config, body)
       /\ IF stop
          THEN pc' = "r_finalize" /\ UNCHANGED last
          ELSE RepairExits
  /\ UNCHANGED <<files, container, image, built_from, locals, dirs, pre, nCommands, host>>

\* the record is written from the hashes of the document alone
repair_finalize ==
  /\ pc = "r_finalize"
  /\ IF CalculateHashesRaises(current_config)
     THEN /\ last' = Ended("repair", "raised", 1, "none")
          /\ UNCHANGED <<stateFile, statusFile, needsApply, current_hashes>>
     ELSE \E w \in WriteOutcomes, status_ok \in BOOLEAN :
            LET hashes == calculate_hashes(current_config)
            IN /\ current_hashes' = hashes
               /\ stateFile' = save_last_applied_hashes(stateFile,
                                  [k \in StateKeys |-> IF k \in HashKeys THEN hashes[k] ELSE Missing], w)
               /\ IF status_ok
                  THEN /\ statusFile' = STATUS_INSTALLED
                       /\ needsApply' = remove_needs_apply_flag(needsApply)
                       /\ last' = Ended("repair", "finalized", 0, w)
                  ELSE /\ last' = Ended("repair", "status_failed", 0, w)
                       /\ UNCHANGED <<statusFile, needsApply>>
  /\ pc' = "idle"
  /\ UNCHANGED <<config, world, plan, current_config, image_digest, calls, dirs, pre, nCommands, host>>

\* ------------------------------------------------------------------------
\* install (commands/install_cmd.py)
\* ------------------------------------------------------------------------
\* get_container_status: the State of the container, "Not Found (...)" with a
\* note on the image when there is none, "Error" when podman ps failed
PodmanPsStatus ==
  IF container THEN "exited"
  ELSE IF image THEN "Not Found (Image Exists)" ELSE "Not Found (No Image)"
ContainerStatuses == {PodmanPsStatus, "Error"}
\* "error" in existing_status.lower()
IsErrorStatus(existing_status) == existing_status \in {"Error", "Error (JSON)", "Error (Check)"}
\* the test install_app makes before it goes on
AlreadyExists(existing_status) ==
  existing_status # "Not Found" /\ ~IsErrorStatus(existing_status)

\* config.get('runtime', {}).get('desktop_integration', True)
RuntimeDesktopIntegration(doc) ==
  LET di == ItemsGet(ConfigGet(doc, "runtime", EmptyMap).items, "desktop_integration")
  IN di = <<>> \/ di[1] # "false"

\* the stage at which install_app gives up, "none" when it completes
InstallFailures(doc) ==
  {"build"} \cup (IF HasBaseImage(doc) THEN {"create"} ELSE {})
            \cup (IF HasBaseImage(doc) /\ ~container
                  THEN {"none"} \cup (IF RuntimeDesktopIntegration(doc) THEN {"export"} ELSE {})
                  ELSE {})

install_app ==
  /\ pc = "idle"
  /\ nCommands < MaxCommands
  /\ nCommands' = nCommands + 1
  /\ plan' = NoPlan
  /\ image_digest' = NoneDigest
  /\ \E doc \in InstallDocs, existing_status \in ContainerStatuses :
       /\ pre' = Started(doc, FALSE)
       /\ IF LoadConfigRaises(doc)
          THEN /\ last' = Ended("install", "invalid", 0, "none")
               /\ calls' = <<>>
               /\ UNCHANGED <<configDir, config, world, home>>
          ELSE IF AlreadyExists(existing_status)
          THEN /\ last' = Ended("install", "already_exists", 0, "none")
               /\ calls' = <<>>
               /\ UNCHANGED <<configDir, config, world, home>>
          ELSE \E fail \in InstallFailures(doc) :
                 /\ configDir' = TRUE
                 /\ config' = doc
                 \* without a base image _generate_containerfile raises and
                 \* podman build is not called
                 /\ calls' = (IF HasBaseImage(doc) THEN <<Call("build", fail # "build")>> ELSE <<>>)
                              \o (IF fail # "build" THEN <<Call("create", fail # "create")>> ELSE <<>>)
                              \o (IF fail \in {"export", "none"} /\ RuntimeDesktopIntegration(doc)
                                  THEN <<Call("add_integration", fail = "none")>> ELSE <<>>)
                 /\ image' = (image \/ fail # "build")
                 /\ built_from' = IF fail # "build" THEN calculate_hashes(doc)["image"]
                                  ELSE built_from
                 /\ home' = (home \/ fail # "build")
                 /\ container' = (container \/ fail \in {"export", "none"})
                 /\ integration' = (integration \/ (fail = "none" /\ RuntimeDesktopIntegration(doc)))
                 /\ last' = Ended("install", IF fail = "none" THEN "complete" ELSE "failed", 0, "none")
  /\ UNCHANGED <<stateFile, statusFile, needsApply, pc, current_hashes, current_config, host>>

\* ------------------------------------------------------------------------
\* remove (commands/remove_cmd.py)
\* ------------------------------------------------------------------------
\* the first of podman stop, podman rm and podman rmi that fails; the three
\* share one try block, so a failure skips the commands after it
PodmanCleanupFailures == {"none", "stop", "rm", "rmi"}

remove_app ==
  /\ pc = "idle"
  /\ nCommands < MaxCommands
  /\ nCommands' = nCommands + 1
  /\ plan' = NoPlan
  /\ image_digest' = NoneDigest
  /\ \E purge_home \in BOOLEAN :
       /\ pre' = Started(NoConfig, purge_home)
       /\ IF ~configDir
          THEN \* "Configuration directory or file not found": return
               /\ last' = Ended("remove", "no_config", 0, "none")
               /\ calls' = <<>>
               /\ UNCHANGED <<files, world, dirs>>
          ELSE \E desktop_ok \in BOOLEAN, fail \in PodmanCleanupFailures :
                 /\ calls' = <<Call("remove_integration", desktop_ok),
                               Call("podman_cleanup", fail = "none")>>
                 /\ integration' = (integration /\ ~desktop_ok)
                 /\ container' = (container /\ fail \in {"stop", "rm"})
                 /\ image' = (image /\ fail # "none")
                 /\ built_from' = IF image /\ fail # "none" THEN built_from ELSE NoneDigest
                 \* shutil.rmtree(app_config_dir)
                 /\ configDir' = FALSE
                 /\ config' = NoConfig
                 /\ stateFile' = NoStateFile
                 /\ statusFile' = "absent"
                 /\ needsApply' = FALSE
                 /\ home' = (home /\ ~purge_home)
                 /\ last' = Ended("remove", "removed", 0, "none")
  /\ UNCHANGED <<pc, current_hashes, current_config, host>>

\* ------------------------------------------------------------------------
\* Specification
\* ------------------------------------------------------------------------
Next ==
  \/ install_app
  \/ remove_app
  \/ configure_app
  \/ apply_changes
  \/ apply_remove_desktop_integration
  \/ apply_remove_container_instance
  \/ apply_remove_container_image
  \/ apply_build_container_image
  \/ apply_push_image_to_registry
  \/ apply_create_container_instance
  \/ apply_add_desktop_integration
  \/ apply_finalize
  \/ repair_app
  \/ repair_remove_desktop_integration
  \/ repair_remove_container_instance
  \/ repair_create_container_instance
  \/ repair_add_desktop_integration
  \/ repair_finalize

Spec == Init /\ [][Next]_vars

\* sequences of configure, apply and repair runs alone
CoreNext ==
  \/ configure_app
  \/ apply_changes
  \/ apply_remove_desktop_integration
  \/ apply_remove_container_instance
  \/ apply_remove_container_image
  \/ apply_build_container_image
  \/ apply_push_image_to_registry
  \/ apply_create_container_instance
  \/ apply_add_desktop_integration
  \/ apply_finalize
  \/ repair_app
  \/ repair_remove_desktop_integration
  \/ repair_remove_container_instance
  \/ repair_create_container_instance
  \/ repair_add_desktop_integration
  \/ repair_finalize

CoreSpec == Init /\ [][CoreNext]_vars

\* ------------------------------------------------------------------------
\* configure while apply is in flight
\* ------------------------------------------------------------------------
\* No lock is taken on the application directory: a configure process runs
\* from its start to its end between two steps of an apply process.  The
\* plan, the loaded document, calls and pre stay those of the apply run.
configure_app_during_apply ==
  /\ pc \in ApplyPcs
  /\ nCommands < MaxCommands
  /\ nCommands' = nCommands + 1
  /\ \E updates \in UpdateLists :
       LET r == ApplyUpdates(config, updates)
           modified == updates # <<>>
       IN IF LoadConfigRaises(config) \/ r.raised
          THEN /\ last' = Ended("configure", "halted", 1, "none")
               /\ UNCHANGED <<config, needsApply>>
          ELSE IF modified
          THEN /\ config' = r.config
               /\ needsApply' = create_needs_apply_flag(needsApply)
               /\ last' = Ended("configure", "saved", 0, "none")
          ELSE /\ last' = Ended("configure", "unmodified", 0, "none")
               /\ UNCHANGED <<config, needsApply>>
  /\ UNCHANGED <<stateFile, statusFile, world, dirs, pc, locals, calls, pre, host>>

RaceNext ==
  \/ configure_app
  \/ configure_app_during_apply
  \/ apply_changes
  \/ apply_remove_desktop_integration
  \/ apply_remove_container_instance
  \/ apply_remove_container_image
  \/ apply_build_container_image
  \/ apply_push_image_to_registry
  \/ apply_create_container_instance
  \/ apply_add_desktop_integration
  \/ apply_finalize

RaceSpec == Init /\ [][RaceNext]_vars

\* ------------------------------------------------------------------------
\* network allow / network deny
\* ------------------------------------------------------------------------
\* str(allow).lower()
AllowStr(allow) == IF allow THEN "true" ELSE "false"

\* config.get('permissions', {}).get('network', True), as it is rendered
NetworkSetting(doc) ==
  LET found == ItemsGet(ConfigGet(doc, "permissions", EmptyMap).items, "network")
  IN IF found = <<>> THEN "true" ELSE found[1]

\* reading the current setting raises: load_config, or .get on a permissions
\* value that is not a mapping
NetworkReadRaises(doc) ==
  LoadConfigRaises(doc) \/ doc["permissions"].kind \notin {"absent", "map"}

\* _set_network_permission: return when the setting is the requested one;
\* otherwise configure_app with permissions.network:<allow>, and when that
\* did not exit, apply_changes(container_name, silent=True). apply_changes
\* takes no parameter silent: the call raises TypeError before its body
\* runs, the handler prints and the function returns.
_set_network_permission(allow) ==
  /\ pc = "idle"
  /\ nCommands < MaxCommands
  /\ nCommands' = nCommands + 1
  /\ LET update == Update("permissions", "network", "set", AllowStr(allow))
         r == ApplyUpdates(config, <<update>>)
     IN /\ pre' = [Snapshot EXCEPT !.updates = <<update>>]
        /\ IF ~configDir
           THEN \* sys.exit(1) passes except Exception
                /\ last' = Ended("network", "no_config", 1, "none")
                /\ UNCHANGED <<config, needsApply>>
           ELSE IF ~NetworkReadRaises(config) /\ NetworkSetting(config) = AllowStr(allow)
           THEN /\ last' = Ended("network", "unchanged", 0, "none")
                /\ UNCHANGED <<config, needsApply>>
           ELSE IF LoadConfigRaises(config) \/ r.raised
           THEN \* configure_app exits with 1: caught, return
                /\ last' = Ended("network", "configure_failed", 0, "none")
                /\ UNCHANGED <<config, needsApply>>
           ELSE /\ config' = r.config
                /\ needsApply' = create_needs_apply_flag(needsApply)
                /\ last' = Ended("network", "apply_raised", 0, "none")
  /\ calls' = <<>>
  /\ plan' = NoPlan
  /\ image_digest' = NoneDigest
  /\ UNCHANGED <<stateFile, statusFile, world, dirs, pc, current_hashes, current_config, host>>

allow_network == _set_network_permission(TRUE)

deny_network == _set_network_permission(FALSE)

NetNext == CoreNext \/ allow_network \/ deny_network

NetSpec == Init /\ [][NetNext]_vars

\* ------------------------------------------------------------------------
\* run, image restore, post-install hooks: the container and its run state
\* ------------------------------------------------------------------------
\* the State values of podman ps for a container that exists
ContainerStates == {"created", "running", "exited", "paused"}

\* what get_container_status can return: the State of the container, one of
\* the two texts for a container that is not there, "Error" when podman ps
\* fails
StatusReports(c, st, img) ==
  {IF c THEN st ELSE IF img THEN "Not Found (Image Exists)" ELSE "Not Found (No Image)",
   "Error"}

\* "run" in status.lower()
HasRun(report) == report = "running"
\* "exited" in status.lower()
HasExited(report) == report = "exited"
\* "created" in status.lower()
HasCreated(report) == report = "created"

\* container, status and local image after a helper has run, the calls it
\* made, and how it ended
Outcome(c, st, img, cs, result) ==
  [container |-> c, status |-> st, image |-> img, calls |-> cs, result |-> result]

\* create_container_instance on a local image: podman create fails when the
\* name is taken
RestoreCreates(c, st, cs) ==
  {IF ok THEN Outcome(TRUE, "created", TRUE, Append(cs, Call("create", TRUE)), "true")
         ELSE Outcome(c, st, TRUE, Append(cs, Call("create", FALSE)), "raised") :
     ok \in IF c THEN {FALSE} ELSE BOOLEAN}

\* the podman ps of get_container_status
Ps(report) == Call("ps", report # "Error")

\* restore_container_from_registry that does not look at the status
restore_container_from_registry_NoStatusCheck(c, st, img, reg) ==
  UNION {IF img THEN RestoreCreates(c, st, <<Ps(report)>>)
         ELSE UNION {IF pulled THEN RestoreCreates(c, st, <<Ps(report), Call("pull", TRUE)>>)
                     ELSE {Outcome(c, st, img, <<Ps(report), Call("pull", FALSE)>>, "raised")} :
                       pulled \in IF reg = NoneDigest THEN {FALSE} ELSE BOOLEAN} :
           report \in StatusReports(c, st, img)}

\* restore_container_from_registry: False for a container that is reported
\* as running, exited or created; otherwise pull when there is no local
\* image (a failed pull is raised again), then create
restore_container_from_registry(c, st, img, reg) ==
  UNION {IF HasRun(report) \/ HasExited(report) \/ HasCreated(report)
         THEN {Outcome(c, st, img, <<Ps(report)>>, "false")}
         ELSE IF img THEN RestoreCreates(c, st, <<Ps(report)>>)
         ELSE UNION {IF pulled THEN RestoreCreates(c, st, <<Ps(report), Call("pull", TRUE)>>)
                     ELSE {Outcome(c, st, img, <<Ps(report), Call("pull", FALSE)>>, "raised")} :
                       pulled \in IF reg = NoneDigest THEN {FALSE} ELSE BOOLEAN} :
           report \in StatusReports(c, st, img)}

\* debox image restore <container>: the function applied to the container of
\* the loaded document; an exception is printed
restore_images ==
  /\ pc = "idle"
  /\ nCommands < MaxCommands
  /\ nCommands' = nCommands + 1
  /\ pre' = Snapshot
  /\ before' = Found
  /\ IF ~configDir \/ LoadConfigRaises(config)
     THEN /\ last' = Ended("restore", "no_config", 0, "none")
          /\ calls' = <<>>
          /\ UNCHANGED <<container, status, image>>
     ELSE \E r \in restore_container_from_registry(container, status, image, registry) :
            /\ container' = r.container
            /\ status' = r.status
            /\ image' = r.image
            /\ calls' = r.calls
            /\ last' = Ended("restore", r.result, 0, "none")
  /\ UNCHANGED <<files, built_from, integration, dirs, pc, locals, registry, imageDir,
                 imageState, returncode>>

\* the return codes of the application
ReturnCodes == {0, 2, 130}
\* marks a subprocess.run that raises instead of returning a code
ExecRaises == -1
\* subprocess.run returns a code, or raises
ExecResults == ReturnCodes \cup {ExecRaises}
\* sys.exit(n): the exit status of the process
ExitStatus(n) == n % 256

\* shlex.split of the default_exec strings
DefaultExecs == {"'app'", "' '"}
ShlexSplit == [v \in DefaultExecs |-> IF v = "'app'" THEN <<"app">> ELSE <<>>]

\* the end of a run: container and status, calls, outcome, exit status and
\* the return code of the application
RunEnd(c, st, cs, outcome, exit, rc) ==
  [container |-> c, status |-> st, calls |-> cs, outcome |-> outcome, exit |-> exit,
   returncode |-> rc]

\* the handler that exits without stopping the container
AfterError_NoStop(c, st, cs, rc, ok) == RunEnd(c, st, cs, "error", 1, rc)

\* except Exception: podman stop --ignore, whose failure is logged; exit 1
AfterError(c, st, cs, rc, ok) ==
  RunEnd(c, IF c /\ ok THEN "exited" ELSE st, Append(cs, Call("stop", ~c \/ ok)),
         "error", 1, rc)

\* run_app
run_app ==
  /\ pc = "idle"
  /\ nCommands < MaxCommands
  /\ nCommands' = nCommands + 1
  /\ pre' = Snapshot
  /\ before' = Found
  /\ \E given, startOk, stopOk, stopAgainOk \in BOOLEAN, result \in ExecResults,
        r \in restore_container_from_registry(container, status, image, registry) :
       LET default == ItemsGet(ConfigGet(config, "runtime", EmptyMap).items, "default_exec")
           parts == IF given THEN <<"cmd">>
                    ELSE IF default = <<>> THEN <<>> ELSE ShlexSplit[default[1]]
           started == Append(r.calls, Call("start", r.container /\ startOk))
           running == IF r.container /\ startOk THEN "running" ELSE r.status
           executed == Append(started, Call("exec", result # ExecRaises))
           end ==
             IF ~configDir \/ LoadConfigRaises(config)
             THEN \* log_error(exit_program=True)
                  RunEnd(container, status, <<>>, "no_config", 1, returncode)
             ELSE IF r.result = "raised"
             THEN RunEnd(r.container, r.status, r.calls, "restore_failed", 1, returncode)
             ELSE IF config["runtime"].kind \notin {"absent", "map"}
             THEN \* runtime_cfg.get raises
                  AfterError(r.container, r.status, r.calls, returncode, stopAgainOk)
             ELSE IF ~given /\ default = <<>>
             THEN \* log_error(exit_program=True)
                  RunEnd(r.container, r.status, r.calls, "no_command", 1, returncode)
             ELSE IF ~(r.container /\ startOk)
             THEN AfterError(r.container, r.status, started, returncode, stopAgainOk)
             ELSE IF parts = <<>>
             THEN \* command_to_run_parts[0] raises IndexError
                  AfterError(r.container, running, started, returncode, stopAgainOk)
             ELSE IF result = ExecRaises
             THEN AfterError(r.container, running, executed, returncode, stopAgainOk)
             ELSE IF ~stopOk
             THEN AfterError(r.container, running, Append(executed, Call("stop", FALSE)),
                             result, stopAgainOk)
             ELSE RunEnd(r.container, "exited", Append(executed, Call("stop", TRUE)),
                         "exited", ExitStatus(result), result)
       IN /\ container' = end.container
          /\ status' = end.status
          /\ image' = IF \/ ~configDir \/ LoadConfigRaises(config) THEN image ELSE r.image
          /\ calls' = end.calls
          /\ returncode' = end.returncode
          /\ last' = Ended("run", end.outcome, end.exit, "none")
  /\ UNCHANGED <<files, built_from, integration, dirs, pc, locals, registry, imageDir,
                 imageState>>

\* run_post_install_hooks for a document that defines lifecycle.post_install:
\* start the container when it is not reported as running, execute the
\* script under run_step, stop the container when it was started here. A
\* failing script makes run_step call sys.exit(1); the SystemExit passes
\* except CalledProcessError.
run_post_install_hooks ==
  /\ pc = "idle"
  /\ nCommands < MaxCommands
  /\ nCommands' = nCommands + 1
  /\ pre' = Snapshot
  /\ before' = Found
  /\ \E post_install_script, startOk, hookOk, stopOk \in BOOLEAN,
        report \in StatusReports(container, status, image) :
       LET was_stopped == ~HasRun(report)
           started == IF was_stopped THEN <<Ps(report), Call("start", container /\ startOk)>>
                                     ELSE <<Ps(report)>>
           running == IF was_stopped /\ container /\ startOk THEN "running" ELSE status
           executed == Append(started, Call("exec", hookOk))
       IN IF ~post_install_script
          THEN /\ last' = Ended("hooks", "no_hooks", 0, "none")
               /\ calls' = <<>>
               /\ UNCHANGED status
          ELSE IF was_stopped /\ ~(container /\ startOk)
          THEN \* log_error(exit_program=True)
               /\ last' = Ended("hooks", "start_failed", 1, "none")
               /\ calls' = started
               /\ UNCHANGED status
          ELSE IF ~(hookOk /\ running = "running")
          THEN \* run_step: sys.exit(1)
               /\ last' = Ended("hooks", "hook_failed", 1, "none")
               /\ calls' = Append(started, Call("exec", FALSE))
               /\ status' = running
          ELSE /\ last' = Ended("hooks", "done", 0, "none")
               /\ calls' = IF was_stopped THEN Append(executed, Call("stop", stopOk))
                                           ELSE executed
               /\ status' = IF was_stopped /\ stopOk THEN "exited" ELSE running
  /\ UNCHANGED <<files, world, dirs, pc, locals, registry, imageDir, imageState, returncode>>

\* documents with and without runtime.default_exec
RunConfigs ==
  {[BaseConfig EXCEPT !["runtime"] = rt] :
     rt \in {Absent, Null} \cup {MapOf(<< <<"default_exec", v>> >>) : v \in DefaultExecs}}

\* an installed application; the container may have been removed since, and
\* with it the local image; the registry may hold a backup
HostStart ==
  /\ configDir = TRUE
  /\ config \in RunConfigs
  /\ stateFile = NoStateFile
  /\ statusFile = STATUS_INSTALLED
  /\ needsApply = FALSE
  /\ container \in BOOLEAN
  /\ image \in IF container THEN {TRUE} ELSE BOOLEAN
  /\ status \in IF container THEN ContainerStates ELSE {"exited"}
  /\ registry \in {NoneDigest, <<"sha256:1">>}
  /\ integration = TRUE /\ home = TRUE
  /\ built_from = calculate_hashes(BaseConfig)["image"]
  /\ pc = "idle"
  /\ plan = NoPlan
  /\ current_hashes = calculate_hashes(BaseConfig)
  /\ current_config = BaseConfig
  /\ image_digest = NoneDigest
  /\ calls = <<>>
  /\ pre = Snapshot
  /\ last = Ended("none", "none", 0, "none")
  /\ nCommands = 0
  /\ imageDir = FALSE
  /\ imageState = NoStateFile
  /\ returncode = 0
  /\ before = NoFound

HostNext == run_app \/ restore_images \/ run_post_install_hooks

HostSpec == HostStart /\ [][HostNext]_vars

\* ------------------------------------------------------------------------
\* Hashing and planning over hand-written documents
\* ------------------------------------------------------------------------
\* every order in which the pairs of a mapping can be written
Perms(items) ==
  LET range == {items[i] : i \in 1..Len(items)}
  IN {s \in [1..Len(items) -> range] : {s[i] : i \in 1..Len(items)} = range}

\* integration.aliases and integration as config.yml can hold them, in every
\* order of their keys
AliasMaps ==
  {<< <<"x", "'a'">> >>} \cup Perms(<< <<"x", "'a'">>, <<"y", "'b'">> >>)
IntegrationMaps ==
  {<< <<"desktop_integration", v>> >> : v \in {"true", "false"}}
    \cup {<< <<"aliases", a>> >> : a \in AliasMaps}
    \cup UNION {Perms(<< <<"desktop_integration", v>>, <<"aliases", a>> >>) :
                  v \in {"true", "false"}, a \in AliasMaps}

\* config.yml after the user has edited it: sections left out, left without
\* data (null, {}), or written with their keys in another order
HashDocs ==
  {[BaseConfig EXCEPT !["integration"] = i, !["storage"] = s] :
     i \in {Absent, Null, EmptyMap} \cup {MapOf(m) : m \in IntegrationMaps},
     s \in {Absent, Null, EmptyMap}}

\* the record a finished apply run of document d has written
RecordOf(d) ==
  save_last_applied_hashes(NoStateFile,
    [k \in StateKeys |->
       IF k = STATE_KEY_REGISTRY_DIGEST THEN <<"sha256:1">> ELSE calculate_hashes(d)[k]],
    "ok")

\* ------------------------------------------------------------------------
\* image rm, image prune: the local registry
\* ------------------------------------------------------------------------
\* the tags get_image_tags can return for the image: its tag, the marker of
\* a failed request, or none
TagLists == {"latest", "<error>", "none"}

\* remove_image_digest that writes a record without the section digests
remove_image_digest_DropsHashes(file, w) ==
  LET hashes == get_last_applied_hashes(file)
  IN IF hashes[STATE_KEY_REGISTRY_DIGEST] = Missing THEN file
     ELSE save_last_applied_hashes(file, EmptyHashes, w)

\* remove_image_digest: load the record, delete the key, save the rest
remove_image_digest(file, w) ==
  LET hashes == get_last_applied_hashes(file)
  IN IF hashes[STATE_KEY_REGISTRY_DIGEST] = Missing THEN file
     ELSE save_last_applied_hashes(file, [hashes EXCEPT ![STATE_KEY_REGISTRY_DIGEST] = Missing], w)

\* how remove_image_from_registry ends: the two state files, the registry,
\* the calls, the digest it used, the outcome, the exit status (0 for a
\* return) and the outcome of the write
RemoveEnd(sf, ist, reg, cs, digest, outcome, exit, write) ==
  [stateFile |-> sf, imageState |-> ist, registry |-> reg, calls |-> cs, digest |-> digest,
   outcome |-> outcome, exit |-> exit, write |-> write]

\* delete_image_manifest, whose False is not looked at; the garbage
\* collector, whose failure is sys.exit(1); remove_image_digest on the
\* directory the digest came from
DeleteManifest(sf, ist, reg, cs, digest, target) ==
  UNION {LET after == IF deleted THEN NoneDigest ELSE reg
             made == cs \o <<Call("delete", deleted), Call("gc", gcOk)>>
         IN IF ~gcOk THEN {RemoveEnd(sf, ist, after, made, digest, "gc_failed", 1, "none")}
            ELSE IF target = "app"
            THEN {RemoveEnd(remove_image_digest(sf, w), ist, after, made, digest, "removed", 0, w) :
                    w \in WriteOutcomes}
            ELSE IF target = "image"
            THEN {RemoveEnd(sf, remove_image_digest(ist, w), after, made, digest, "removed", 0, w) :
                    w \in WriteOutcomes}
            ELSE {RemoveEnd(sf, ist, after, made, digest, "removed", 0, "none")} :
           deleted \in IF reg # NoneDigest /\ digest = reg THEN BOOLEAN ELSE {FALSE},
           gcOk \in BOOLEAN}

\* no digest: return under ignore_errors, log_error(exit_program=True) else
NoDigest(ignore_errors, sf, ist, reg, cs) ==
  IF ignore_errors THEN RemoveEnd(sf, ist, reg, cs, NoneDigest, "skipped", 0, "none")
  ELSE RemoveEnd(sf, ist, reg, cs, NoneDigest, "no_digest", 1, "none")

\* remove_image_from_registry(image_name, tag, ignore_errors): the digest of
\* the application's record, else the one of the base-image record, else the
\* one the registry reports for the tag; a record that is not an object
\* raises in get_image_digest, which run_step turns into an exit or, under
\* ignore_errors, into no digest
remove_image_from_registry(ignore_errors, tag, sf, idir, ist, reg) ==
  LET appDigest == Get(get_last_applied_hashes(sf), STATE_KEY_REGISTRY_DIGEST)
      imageDigest == Get(get_last_applied_hashes(ist), STATE_KEY_REGISTRY_DIGEST)
  IN IF SavedHashesGetRaises(sf)
     THEN IF ignore_errors THEN {NoDigest(TRUE, sf, ist, reg, <<>>)}
          ELSE {RemoveEnd(sf, ist, reg, <<>>, NoneDigest, "digest_failed", 1, "none")}
     ELSE IF appDigest # NoneDigest
     THEN DeleteManifest(sf, ist, reg, <<>>, appDigest, "app")
     ELSE IF idir /\ SavedHashesGetRaises(ist)
     THEN IF ignore_errors THEN {NoDigest(TRUE, sf, ist, reg, <<>>)}
          ELSE {RemoveEnd(sf, ist, reg, <<>>, NoneDigest, "digest_failed", 1, "none")}
     ELSE IF idir /\ imageDigest # NoneDigest
     THEN DeleteManifest(sf, ist, reg, <<>>, imageDigest, "image")
     ELSE UNION {IF answer = NoneDigest
                 THEN {NoDigest(ignore_errors, sf, ist, reg, <<Call("query", FALSE)>>)}
                 ELSE DeleteManifest(sf, ist, reg, <<Call("query", TRUE)>>, answer, "none") :
                   answer \in IF tag = "latest" THEN {reg, NoneDigest} ELSE {NoneDigest}}

\* debox image rm <name>
image_rm ==
  /\ pc = "idle"
  /\ nCommands < MaxCommands
  /\ nCommands' = nCommands + 1
  /\ pre' = Snapshot
  /\ before' = Found
  /\ \E r \in remove_image_from_registry(FALSE, "latest", stateFile, imageDir, imageState,
                                          registry) :
       /\ stateFile' = r.stateFile
       /\ imageState' = r.imageState
       /\ registry' = r.registry
       /\ calls' = r.calls
       /\ image_digest' = r.digest
       /\ last' = Ended("image_rm", r.outcome, r.exit, r.write)
  /\ UNCHANGED <<config, statusFile, needsApply, world, dirs, pc, plan, current_hashes,
                 current_config, status, imageDir, returncode>>

\* prune_registry: the names of the documents that load and hold
\* container_name, and the names of the base-image directories, are active;
\* every tag of a registry image that is not active is removed, unless
\* dry_run; then the garbage collector runs
prune_registry ==
  /\ pc = "idle"
  /\ nCommands < MaxCommands
  /\ nCommands' = nCommands + 1
  /\ pre' = Snapshot
  /\ before' = Found
  /\ \E dry_run, catalogOk, gcOk \in BOOLEAN, tags \in TagLists :
       LET active == (configDir /\ config["container_name"].kind # "absent") \/ imageDir
           orphan == registry # NoneDigest /\ ~active
           kept == RemoveEnd(stateFile, imageState, registry, <<>>, NoneDigest, "kept", 0, "none")
           removals == IF orphan /\ tags # "none" /\ ~dry_run
                       THEN remove_image_from_registry(TRUE, tags, stateFile, imageDir,
                                                       imageState, registry)
                       ELSE {kept}
       IN IF ~catalogOk
          THEN \* log_error(exit_program=True)
               /\ last' = Ended("prune", "catalog_failed", 1, "none")
               /\ calls' = <<Call("catalog", FALSE)>>
               /\ UNCHANGED <<stateFile, imageState, registry, image_digest>>
          ELSE \E r \in removals :
                 /\ stateFile' = r.stateFile
                 /\ imageState' = r.imageState
                 /\ registry' = r.registry
                 /\ image_digest' = r.digest
                 /\ IF r.exit # 0
                    THEN /\ calls' = <<Call("catalog", TRUE)>> \o r.calls
                         /\ last' = Ended("prune", r.outcome, r.exit, r.write)
                    ELSE /\ calls' = <<Call("catalog", TRUE)>> \o r.calls
                                        \o <<Call("gc", gcOk)>>
                         /\ last' = Ended("prune",
                                          IF ~gcOk THEN "gc_failed"
                                          ELSE IF dry_run THEN "dry_run" ELSE "pruned",
                                          IF gcOk THEN 0 ELSE 1, r.write)
  /\ UNCHANGED <<config, statusFile, needsApply, world, dirs, pc, plan, current_hashes,
                 current_config, status, imageDir, returncode>>

\* a document that does not hold container_name
NoNameConfig == [BaseConfig EXCEPT !["container_name"] = Absent]

\* the record without a registry digest
NoDigestRecord(d) ==
  [RecordOf(d) EXCEPT !.hashes[STATE_KEY_REGISTRY_DIGEST] = Missing]

\* the record with the digest of an image that has been replaced since
StaleDigestRecord(d) ==
  [RecordOf(d) EXCEPT !.hashes[STATE_KEY_REGISTRY_DIGEST] = <<"sha256:2">>]

\* application directory, base-image directory and registry, each there or
\* not, with the state files they can hold
RegistryStart ==
  /\ configDir \in BOOLEAN
  /\ config \in IF configDir THEN {BaseConfig, NoNameConfig} ELSE {BaseConfig}
  /\ stateFile \in {NoStateFile, NonObjectStateFile, RecordOf(BaseConfig),
                     NoDigestRecord(BaseConfig), StaleDigestRecord(BaseConfig)}
  /\ imageDir \in BOOLEAN
  /\ imageState \in IF imageDir
                    THEN {NoStateFile, RecordOf(NoBaseConfig), NoDigestRecord(NoBaseConfig)}
                    ELSE {NoStateFile}
  /\ registry \in {NoneDigest, <<"sha256:1">>}
  /\ statusFile = STATUS_INSTALLED
  /\ needsApply = FALSE
  /\ container = FALSE /\ image = FALSE /\ integration = FALSE /\ home = TRUE
  /\ built_from = NoneDigest
  /\ status = "exited"
  /\ pc = "idle"
  /\ plan = NoPlan
  /\ current_hashes = calculate_hashes(BaseConfig)
  /\ current_config = BaseConfig
  /\ image_digest = NoneDigest
  /\ calls = <<>>
  /\ pre = Snapshot
  /\ last = Ended("none", "none", 0, "none")
  /\ nCommands = 0
  /\ returncode = 0
  /\ before = NoFound

RegistryNext == image_rm \/ prune_registry

RegistrySpec == RegistryStart /\ [][RegistryNext]_vars

\* the export section, which no digest is taken of, as config.yml can hold it
ExportValues == {Absent, MapOf(<< <<"x", "'a'">> >>)}

\* the application as an apply run of one document has left it, and
\* config.yml as the user has written it since, with or without the flag
HashInit ==
  /\ configDir = TRUE
  /\ config \in {[d EXCEPT !["export"] = e] : d \in HashDocs, e \in ExportValues}
  /\ \E d \in HashDocs : ~CalculateHashesRaises(d) /\ stateFile = RecordOf(d)
  /\ statusFile = STATUS_INSTALLED
  /\ needsApply \in BOOLEAN
  /\ container = TRUE /\ image = TRUE /\ integration = TRUE /\ home = TRUE
  /\ built_from = calculate_hashes(BaseConfig)["image"]
  /\ pc = "idle"
  /\ plan = NoPlan
  /\ current_hashes = calculate_hashes(config)
  /\ current_config = config
  /\ image_digest = NoneDigest
  /\ calls = <<>>
  /\ pre = Snapshot
  /\ last = Ended("none", "none", 0, "none")
  /\ nCommands = 0
  /\ HostInit

\* one apply run, up to its plan
HashSpec == HashInit /\ [][apply_changes]_vars

\* ------------------------------------------------------------------------
\* configure with lists of updates that revert themselves or fail
\* ------------------------------------------------------------------------
\* a mutation of a list or of a mapping followed by its reversal
RevertLists ==
  {<<Update("image", "packages", "add", v), Update("image", "packages", "remove", v)>> :
     v \in {"a", "true"}}
    \cup {<<Update("integration", "aliases", "set_map", "x=a"),
            Update("integration", "aliases", "unset_map", "x")>>}

\* lists whose second update fails: an action that is not known, a value that
\* is not in the list, a key that is not in the mapping, a remove on a key
\* that holds no list, an unset_map under a section that is not there
FailingLists ==
  {<<Update("image", "base", "set", "b"), Update("image", "base", "bogus", "a")>>,
   <<Update("image", "packages", "add", "a"), Update("image", "packages", "remove", "b")>>,
   <<Update("integration", "aliases", "set_map", "x=a"),
     Update("integration", "aliases", "unset_map", "y")>>,
   <<Update("image", "base", "set", "b"), Update("image", "base", "remove", "b")>>,
   <<Update("image", "base", "set", "b"), Update("runtime", "aliases", "unset_map", "x")>>}

EditLists == {<<>>} \cup RevertLists \cup FailingLists

\* documents with and without the packages list and the aliases mapping
EditDocs ==
  {[BaseConfig EXCEPT !["image"] = MapOf(<< <<"base", "'a'">> >> \o p), !["integration"] = i] :
     p \in {<<>>, << <<"packages", <<>> >> >>, << <<"packages", <<"'b'">> >> >>,
            << <<"packages", <<"'a'", "'b'">> >> >>},
     i \in {Absent, MapOf(<< <<"aliases", << <<"y", "'b'">> >> >> >>),
            MapOf(<< <<"aliases", << <<"x", "'b'">> >> >> >>)}}

configure_app_edit == ConfigureApp(EditLists)

\* an installed application whose record holds the digests of config.yml
EditInit ==
  /\ configDir = TRUE
  /\ config \in EditDocs
  /\ stateFile = RecordOf(config)
  /\ statusFile = STATUS_INSTALLED
  /\ needsApply = FALSE
  /\ container = TRUE /\ image = TRUE /\ integration = TRUE /\ home = TRUE
  /\ built_from = calculate_hashes(config)["image"]
  /\ pc = "idle"
  /\ plan = NoPlan
  /\ current_hashes = calculate_hashes(config)
  /\ current_config = config
  /\ image_digest = NoneDigest
  /\ calls = <<>>
  /\ pre = Snapshot
  /\ last = Ended("none", "none", 0, "none")
  /\ nCommands = 0
  /\ HostInit

EditNext == configure_app_edit \/ apply_changes

EditSpec == EditInit /\ [][EditNext]_vars


\* ------------------------------------------------------------------------
\* Properties
\* ------------------------------------------------------------------------
\* an apply run is under way, or was the last command to end
ApplyRunning == pc \in ApplyPcs
ApplyEnded == pc = "idle" /\ last.op = "apply"
\* the plan, current_hashes and pre are those of an apply run
PlanComputed == ApplyRunning \/ (ApplyEnded /\ last.outcome \notin {"raised", "no_config"})

\* the saved digest of a section when the run started; None when there is none
SavedAtStart(k) ==
  LET saved == get_last_applied_hashes(pre.stateFile)
  IN IF saved[k] = Missing THEN NoneDigest ELSE saved[k]

FullPlan == [rebuild |-> TRUE, recreate |-> TRUE, reintegrate |-> TRUE]
CallNames == {calls[i].call : i \in 1..Len(calls)}
FailedCalls == {calls[i].call : i \in {j \in 1..Len(calls) : ~calls[j].ok}}

\* C1: the plan of every apply run is rebuild = imageChanged, recreate =
\* rebuild or storage, runtime, permissions or integration_critical changed,
\* reintegrate = recreate or integration changed; so rebuild implies recreate
\* and recreate implies reintegrate.
C1_PlanChain ==
  PlanComputed =>
    LET imageChanged == current_hashes["image"] # SavedAtStart("image")
        storageChanged == current_hashes["storage"] # SavedAtStart("storage")
        runtimeChanged == current_hashes["runtime"] # SavedAtStart("runtime")
        permissionsChanged == current_hashes["permissions"] # SavedAtStart("permissions")
        integrationChanged == current_hashes["integration"] # SavedAtStart("integration")
        integrationCriticalChanged ==
          current_hashes["integration_critical"] # SavedAtStart("integration_critical")
    IN /\ plan.rebuild = imageChanged
       /\ plan.recreate = (plan.rebuild \/ storageChanged \/ runtimeChanged
                             \/ permissionsChanged \/ integrationCriticalChanged)
       /\ plan.reintegrate = (plan.recreate \/ integrationChanged)
       /\ plan.rebuild => plan.recreate
       /\ plan.recreate => plan.reintegrate

\* a run whose plan recreates without rebuilding
C1_Witness == ApplyRunning /\ ~plan.rebuild /\ plan.recreate /\ plan.reintegrate

\* the collaborator calls of a plan, in the order of the step sequence
StepOrder == <<"remove_integration", "remove_container", "remove_image", "build",
               "push", "create", "add_integration">>
StepFlag(name) ==
  IF name \in {"remove_integration", "add_integration"} THEN plan.reintegrate
  ELSE IF name \in {"remove_container", "create"} THEN plan.recreate
  ELSE plan.rebuild
PlannedCalls == SelectSeq(StepOrder, StepFlag)
FinalizeReached ==
  \/ pc = "a_finalize"
  \/ (ApplyEnded /\ last.outcome \in {"finalized", "status_failed"})

\* C2: in an apply run the collaborator calls made so far are, in order, the
\* first calls of the sequence remove integration, remove container, remove
\* image, build, push, create, add integration restricted to the steps whose
\* plan flag is set; finalize is reached only after all of them.
C2_StepOrder ==
  PlanComputed =>
    /\ Len(calls) <= Len(PlannedCalls)
    /\ \A i \in 1..Len(calls) : calls[i].call = PlannedCalls[i]
    /\ FinalizeReached => Len(calls) = Len(PlannedCalls)

\* a full plan that ran to the end
C2_Witness == ApplyEnded /\ last.outcome = "finalized" /\ Len(calls) = 7

\* C3 (as claimed): when a step of an apply run failed, the state record and
\* the installation status after the run are those before the run.
C3_FailedStepKeepsState ==
  (ApplyEnded /\ FailedCalls # {}) =>
    /\ stateFile = pre.stateFile
    /\ get_installation_status(statusFile) = get_installation_status(pre.statusFile)

\* C4 (as claimed): after an apply run in which a step failed the flag is present.
C4_FailedRunSetsFlag ==
  (ApplyEnded /\ last.outcome = "step_failed") => needsApply

\* C5: when the build of an apply run fails, the build is the last
\* collaborator call of the run (no push, no creation, no integration), the
\* run ends without finalize and the state record is the one before the run.
C5_FailedBuildStops ==
  ((ApplyRunning \/ ApplyEnded) /\ \E i \in 1..Len(calls) : calls[i] = Call("build", FALSE)) =>
    /\ ApplyEnded
    /\ last.outcome = "step_failed"
    /\ calls[Len(calls)] = Call("build", FALSE)
    /\ CallNames \cap {"push", "create", "add_integration"} = {}
    /\ stateFile = pre.stateFile

\* a failed build over an existing state record
C5_Witness ==
  /\ ApplyEnded
  /\ \E i \in 1..Len(calls) : calls[i] = Call("build", FALSE)
  /\ pre.stateFile.kind = "map"

\* the current digests of the run equal the digests saved when it started
ConvergedAtStart == \A k \in HashKeys : current_hashes[k] = SavedAtStart(k)
\* the digests of the live document equal the saved ones
Converged ==
  /\ ~CalculateHashesRaises(config)
  /\ \A k \in HashKeys :
       calculate_hashes(config)[k] = Get(get_last_applied_hashes(stateFile), k)

C8_FlagClearedOnlyWhenRecorded ==
  (pc = "idle" /\ last.op \in {"apply", "repair"} /\ pre.needsApply /\ ~needsApply) =>
    \/ last.outcome = "noop"
    \/ (last.outcome = "finalized" /\ last.write = "ok")

\* C9: an apply run that finds no state record plans rebuild, recreate and
\* reintegrate, whatever the document holds.
C9_NoStateFullPlan ==
  (PlanComputed /\ pre.stateFile.kind = "absent") => plan = FullPlan

\* a first apply of a document that configure has changed
C9_Witness ==
  ApplyRunning /\ pre.stateFile.kind = "absent" /\ config # BaseConfig

\* C10: when only the image digest differs from the saved digests the plan is
\* rebuild, recreate and reintegrate.
C10_ImageChangeFullPlan ==
  (/\ PlanComputed
   /\ current_hashes["image"] # SavedAtStart("image")
   /\ \A k \in HashKeys \ {"image"} : current_hashes[k] = SavedAtStart(k))
    => plan = FullPlan

\* a run over a saved record from which only the image section differs
C10_Witness ==
  /\ ApplyRunning
  /\ pre.stateFile.kind = "map"
  /\ current_hashes["image"] # SavedAtStart("image")
  /\ \A k \in HashKeys \ {"image"} : current_hashes[k] = SavedAtStart(k)

\* C11: when the permissions digest differs from the saved one and every
\* other digest equals its saved one, the plan is recreate and reintegrate
\* without rebuild.
C11_PermissionsOnlyPlan ==
  (/\ PlanComputed
   /\ current_hashes["permissions"] # SavedAtStart("permissions")
   /\ \A k \in HashKeys \ {"permissions"} : current_hashes[k] = SavedAtStart(k))
    => plan = [rebuild |-> FALSE, recreate |-> TRUE, reintegrate |-> TRUE]

\* a run over a saved record from which only the permissions section differs
C11_Witness ==
  /\ ApplyRunning
  /\ pre.stateFile.kind = "map"
  /\ current_hashes["permissions"] # SavedAtStart("permissions")
  /\ \A k \in HashKeys \ {"permissions"} : current_hashes[k] = SavedAtStart(k)

\* the integration section of the document holds fields, none of them the
\* desktop_integration switch, and the record was saved from a document
\* without integration fields and with the same other sections
OnlyNonCriticalIntegrationAdded ==
  LET int_conf == ConfigGet(config, "integration", EmptyMap)
  IN /\ int_conf.kind = "map"
     /\ int_conf.items # <<>>
     /\ ItemsGet(int_conf.items, "desktop_integration") = <<>>
     /\ SavedAtStart("integration") = JsonDumps(EmptyMap)
     /\ \A k \in {"image", "storage", "runtime", "permissions"} :
          current_hashes[k] = SavedAtStart(k)

\* C12: an apply run over a document that differs from the applied one in a
\* non-critical integration field only (an alias mapping) plans reintegrate
\* alone.
C12_NonCriticalIntegrationPlan ==
  (PlanComputed /\ OnlyNonCriticalIntegrationAdded)
    => plan = [rebuild |-> FALSE, recreate |-> FALSE, reintegrate |-> TRUE]

\* such a run is under way
C12_Witness == ApplyRunning /\ pre.stateFile.kind = "map" /\ OnlyNonCriticalIntegrationAdded

C14_RegistryDigestPersists ==
  (/\ pc = "idle"
   /\ \/ last.op = "repair" /\ last.outcome = "finalized" /\ last.write = "ok"
      \/ last.op = "apply" /\ last.outcome = "noop"
      \/ last.op = "configure")
    => Get(get_last_applied_hashes(stateFile), STATE_KEY_REGISTRY_DIGEST)
         = Get(get_last_applied_hashes(pre.stateFile), STATE_KEY_REGISTRY_DIGEST)

\* C15 (as claimed): a missing marker reads as NOT_INSTALLED, and an apply or
\* repair run in which a step failed does not turn NOT_INSTALLED into
\* INSTALLED.
C15_InstalledOnlyOnSuccess ==
  /\ get_installation_status("absent") = STATUS_NOT_INSTALLED
  /\ (/\ pc = "idle"
      /\ last.op \in {"apply", "repair"}
      /\ FailedCalls # {}
      /\ get_installation_status(pre.statusFile) = STATUS_NOT_INSTALLED)
       => get_installation_status(statusFile) = STATUS_NOT_INSTALLED

\* the last command was a remove of an application that had its directory
RemoveEnded == pc = "idle" /\ last.op = "remove" /\ pre.configDir

\* C16 (as claimed): after a remove without --purge the document and the
\* isolated home directory are as before, the status reads NOT_INSTALLED, the
\* state record holds no section digest and registry_digest is the one the
\* record had before.
C16_RemoveKeepsConfigAndDigest ==
  (RemoveEnded /\ ~pre.purge) =>
    /\ configDir
    /\ config = pre.config
    /\ home = pre.home
    /\ get_installation_status(statusFile) = STATUS_NOT_INSTALLED
    /\ \A k \in HashKeys : get_last_applied_hashes(stateFile)[k] = Missing
    /\ Get(get_last_applied_hashes(stateFile), STATE_KEY_REGISTRY_DIGEST)
         = Get(get_last_applied_hashes(pre.stateFile), STATE_KEY_REGISTRY_DIGEST)

\* C17 (as claimed): after a remove with --purge there is no document, no
\* state record, no status marker, no flag and no isolated home directory.
C17_PurgeDeletesEverything ==
  (pc = "idle" /\ last.op = "remove" /\ pre.purge) =>
    /\ ~configDir
    /\ stateFile = NoStateFile
    /\ statusFile = "absent"
    /\ ~needsApply
    /\ ~home

\* the digests of the document given to install are the saved ones
InstallSameDigests ==
  \A k \in HashKeys :
    calculate_hashes(pre.doc)[k] = Get(get_last_applied_hashes(pre.stateFile), k)

\* C18 (as claimed): an install of a valid document over an application whose
\* status is INSTALLED calls no collaborator and leaves document, state
\* record, status and flag as they were; it ends as a success when the
\* document has the saved digests and as the name-conflict error otherwise.
C18_InstallWhileInstalled ==
  (/\ pc = "idle"
   /\ last.op = "install"
   /\ get_installation_status(pre.statusFile) = STATUS_INSTALLED
   /\ ~LoadConfigRaises(pre.doc) /\ ~CalculateHashesRaises(pre.doc)) =>
    /\ calls = <<>>
    /\ config = pre.config
    /\ stateFile = pre.stateFile
    /\ statusFile = pre.statusFile
    /\ needsApply = pre.needsApply
    /\ InstallSameDigests => last.outcome \notin {"already_exists", "failed", "invalid"}
    /\ ~InstallSameDigests => last.outcome = "already_exists"

\* a document without a required key or without the base image reference
LacksRequired(doc) == LoadConfigRaises(doc) \/ ~HasBaseImage(doc)

\* C19 (as claimed): an install or an apply of a document that lacks a
\* required key or the base image calls no collaborator and leaves the state
\* record, the status marker and the flag as they were.
C19_InvalidDocumentNoSideEffect ==
  (/\ pc = "idle"
   /\ \/ last.op = "install" /\ LacksRequired(pre.doc)
      \/ last.op = "apply" /\ pre.configDir /\ LacksRequired(pre.config)) =>
    /\ calls = <<>>
    /\ stateFile = pre.stateFile
    /\ statusFile = pre.statusFile
    /\ needsApply = pre.needsApply

\* C20 (as claimed): an apply run of a valid document that finds a state
\* file that does not parse, or parses to something that is not an object,
\* is not aborted and plans rebuild, recreate and reintegrate.
C20_UnreadableStateFullPlan ==
  (/\ ApplyRunning \/ ApplyEnded
   /\ pre.configDir
   /\ pre.stateFile.kind \in {"corrupt", "nonobject"}
   /\ ~LoadConfigRaises(pre.config) /\ ~CalculateHashesRaises(pre.config)) =>
    /\ ApplyEnded => last.outcome # "raised"
    /\ plan = FullPlan


\* two mappings with the same keys and the same value under every key, the
\* mappings inside compared in the same way
SameScalars(items1, items2) ==
  /\ Len(items1) = Len(items2)
  /\ \A k \in SectionKeys : ItemsGet(items1, k) = ItemsGet(items2, k)
SameMapping(items1, items2) ==
  /\ Len(items1) = Len(items2)
  /\ \A k \in SectionKeys :
       LET a == ItemsGet(items1, k)
           b == ItemsGet(items2, k)
       IN /\ (a = <<>>) = (b = <<>>)
          /\ a # <<>> => IF k \in MAP_KEYS THEN SameScalars(a[1], b[1]) ELSE a[1] = b[1]
StructurallyEqual(c, d) ==
  \A k \in TopKeys : c[k].kind = d[k].kind /\ SameMapping(c[k].items, d[k].items)

\* C21: when config.yml is, up to the order of the keys of its mappings at
\* every depth, the document whose digests are in the record, the digests
\* apply computes are those of the record and its plan is the no-op plan.
C21_KeyOrderInvariant ==
  PlanComputed =>
    \A d \in HashDocs :
      (StructurallyEqual(config, d) /\ pre.stateFile = RecordOf(d)) =>
        /\ \A k \in HashKeys : current_hashes[k] = pre.stateFile.hashes[k]
        /\ IsNoOp(plan)

\* the record is that of a document with the keys of integration and those
\* of integration.aliases both in another order than in config.yml
C21_Witness ==
  /\ ApplyEnded /\ last.outcome = "noop"
  /\ \E d \in HashDocs :
       /\ StructurallyEqual(config, d) /\ pre.stateFile = RecordOf(d)
       /\ d["integration"].kind = "map" /\ Len(d["integration"].items) = 2
       /\ d["integration"].items[1][1] # config["integration"].items[1][1]
       /\ ItemsGet(d["integration"].items, "aliases")
            # ItemsGet(config["integration"].items, "aliases")


\* a section without data: left out, null, or the empty mapping
NoData(section) == section.kind \in {"absent", "null"} \/ section = EmptyMap

\* C22 (as claimed): an apply run never fails on computing the digests of
\* config.yml, and the sections of config.yml that have no data (left out,
\* null or an empty mapping) all get one and the same digest.
C22_NoDataOneDigest ==
  /\ ApplyEnded => last.outcome # "raised"
  /\ PlanComputed =>
       \A s1 \in SECTIONS_TO_HASH, s2 \in SECTIONS_TO_HASH :
         (NoData(config[s1]) /\ NoData(config[s2])) => current_hashes[s1] = current_hashes[s2]


\* C27: when the record holds the digests of a document d, the
\* integration_critical digest apply computes for config.yml is the recorded
\* one exactly when config.yml and d have the same desktop_integration value
\* (True when the key is not there), whatever their other fields; when the
\* values differ the plan recreates the container.
C27_CriticalDigestIsSwitch ==
  PlanComputed =>
    \A d \in HashDocs :
      (~CalculateHashesRaises(d) /\ pre.stateFile = RecordOf(d)) =>
        LET same == DesktopIntegrationEnabled(config) = DesktopIntegrationEnabled(d)
        IN /\ same = (current_hashes["integration_critical"]
                        = pre.stateFile.hashes["integration_critical"])
           /\ ~same => plan.recreate

\* the switch is on in the recorded document, which has no integration
\* section, and off in config.yml, which has aliases as well
C27_Witness ==
  /\ ApplyRunning /\ plan.recreate /\ ~plan.rebuild
  /\ pre.stateFile = RecordOf([config EXCEPT !["integration"] = Absent])
  /\ ~DesktopIntegrationEnabled(config)
  /\ ItemsGet(config["integration"].items, "aliases") # <<>>


RepairRunning == pc \in RepairPcs
RepairEnded == pc = "idle" /\ last.op = "repair"
\* the run is at a step before finalize, or a failed step has ended it there
BeforeFinalize ==
  \/ pc \in (ApplyPcs \cup RepairPcs)
  \/ (pc = "idle" /\ last.op \in {"apply", "repair"} /\ last.outcome = "step_failed")

\* C24: while an apply or a repair run is at one of its steps up to the start
\* of finalize, and after a failed step has ended it, the state record, the
\* status marker and the flag are what they were when the run started.
C24_FilesUntouchedBeforeFinalize ==
  BeforeFinalize =>
    /\ stateFile = pre.stateFile
    /\ statusFile = pre.statusFile
    /\ needsApply = pre.needsApply

\* a full plan has run all its steps over a record and a flag that were there
C24_Witness ==
  /\ pc = "a_finalize" /\ Len(calls) = 7
  /\ pre.stateFile.kind = "map" /\ pre.needsApply /\ pre.statusFile = STATUS_INSTALLED


\* C25 (as claimed): an apply or repair run that a failed step has ended
\* leaves the process with an exit status other than 0.
C25_FailedStepExitsNonZero ==
  (pc = "idle" /\ last.op \in {"apply", "repair"} /\ last.outcome = "step_failed") =>
    last.exit # 0


RepairOrder == <<"remove_integration", "remove_container", "create", "add_integration">>

\* C26: the collaborator calls of a repair run are, in order, the first calls
\* of remove integration, remove container, create, add integration, all four
\* when finalize is reached; a run that got to its steps found the image and
\* leaves it in place; a run that found no image made no call and left the
\* state record, the status marker and the flag as they were.
C26_RepairKeepsImage ==
  /\ (RepairRunning \/ RepairEnded) =>
       /\ Len(calls) <= Len(RepairOrder)
       /\ \A i \in 1..Len(calls) : calls[i].call = RepairOrder[i]
  /\ (pc = "r_finalize" \/ (RepairEnded /\ last.outcome \in {"finalized", "status_failed"})) =>
       Len(calls) = Len(RepairOrder)
  /\ (RepairRunning \/ (RepairEnded /\ last.outcome \in {"step_failed", "finalized", "status_failed"})) =>
       image
  /\ (RepairEnded /\ ~image) =>
       /\ calls = <<>>
       /\ stateFile = pre.stateFile /\ statusFile = pre.statusFile
       /\ needsApply = pre.needsApply

\* a repair that found no image, after a configure that has left the flag
C26_Witness ==
  /\ RepairEnded /\ last.outcome = "no_image" /\ ~image
  /\ pre.needsApply /\ needsApply


\* C28 (as claimed): the image digest that a finished apply or repair run has
\* written into the record is the digest of the image section the local
\* image was built from; and an apply run that finds a local image built from
\* another image section than the one in config.yml plans a rebuild.
C28_ImageDigestOnlyAfterBuild ==
  /\ (pc = "idle" /\ last.op \in {"apply", "repair"} /\ last.outcome = "finalized"
        /\ last.write = "ok") =>
       stateFile.hashes["image"] = built_from
  /\ (PlanComputed /\ image /\ built_from # current_hashes["image"]) => plan.rebuild


\* C29 (as claimed): in every state that configure, apply and repair runs
\* reach, when the flag is absent and the status is INSTALLED the section
\* digests of the record are the digests of config.yml.
C29_QuiescentMeansConverged ==
  (~needsApply /\ get_installation_status(statusFile) = STATUS_INSTALLED) => Converged


\* an apply run starts right after an apply run that had computed its plan
\* and then failed; config.yml is as the failed run read it
RetryStarts ==
  /\ pc = "idle" /\ last.op = "apply" /\ last.exit # 0
  /\ last.outcome \in {"step_failed", "status_failed"}
  /\ nCommands' = nCommands + 1
  /\ pc' \in ApplyPcs \/ (pc' = "idle" /\ last'.op = "apply")

\* C23 (as claimed): the apply run that follows a failed apply run computes
\* the plan of the failed run; and when it ends at once with exit status 0,
\* as every later run then does, it leaves the record's digests equal to
\* those of config.yml, the status INSTALLED and the flag absent.
C23_RetryAfterFailedApply ==
  [][RetryStarts =>
       /\ plan' = plan
       /\ (pc' = "idle" /\ last'.exit = 0) =>
            /\ Converged'
            /\ get_installation_status(statusFile') = STATUS_INSTALLED
            /\ ~needsApply']_vars


\* C30 (as claimed): when an apply run has ended and config.yml is no longer
\* the document the run started from, because a configure has saved it in
\* between, the flag is present or the record's digests are those of
\* config.yml.
C30_ConcurrentConfigureNotLost ==
  (pc = "idle" /\ last.op = "apply" /\ config # pre.config) => (needsApply \/ Converged)


ConfigureEnded == pc = "idle" /\ last.op = "configure"

\* C32: a configure command whose list of updates is empty, or one of whose
\* updates fails (unknown action, missing path, type conflict, value not
\* found), leaves config.yml, the state record and the .needs_apply flag as
\* they were, also when earlier updates of the list succeeded.
C32_ConfigureAllOrNothing ==
  (ConfigureEnded /\ (pre.updates = <<>> \/ ApplyUpdates(pre.config, pre.updates).raised))
    => /\ config = pre.config
       /\ needsApply = pre.needsApply
       /\ stateFile = pre.stateFile
       /\ last.exit = (IF pre.updates = <<>> THEN 0 ELSE 1)

\* a list whose first update changed the document and whose second failed
C32_Witness ==
  /\ ConfigureEnded /\ last.outcome = "halted"
  /\ Len(pre.updates) = 2
  /\ ~UpdateRaises(pre.config, pre.updates[1])
  /\ update_config_value(pre.config, pre.updates[1]) # pre.config
  /\ UpdateRaises(update_config_value(pre.config, pre.updates[1]), pre.updates[2])
  /\ config = pre.config /\ ~needsApply

\* the list is a mutation followed by its reversal: add then remove of one
\* value on one list key, set_map then unset_map of one key on one map key
IsRevert(updates) ==
  /\ Len(updates) = 2
  /\ updates[1].section = updates[2].section
  /\ updates[1].key = updates[2].key
  /\ \/ /\ updates[1].action = "add" /\ updates[2].action = "remove"
        /\ updates[1].value = updates[2].value
     \/ /\ updates[1].action = "set_map" /\ updates[2].action = "unset_map"
        /\ updates[1].value \in MapValueStrs
        /\ SplitKey[updates[1].value] = updates[2].value

\* C33: after a configure command that saved a mutation followed by its
\* reversal, the digests of config.yml are those of the document before the
\* command, so that an application whose record matched stays converged and
\* the following apply is a no-op.
C33_RevertRestoresDigests ==
  (ConfigureEnded /\ last.outcome = "saved" /\ IsRevert(pre.updates))
    => /\ calculate_hashes(config) = calculate_hashes(pre.config)
       /\ Converged

\* the original statement fails where the list key was not in the document
C33_Counterexample ==
  ~(/\ ConfigureEnded /\ last.outcome = "saved" /\ IsRevert(pre.updates)
    /\ pre.updates[1].action = "add"
    /\ ItemsGet(pre.config["image"].items, "packages") = <<>>
    /\ ItemsGet(config["image"].items, "packages") = << <<>> >>
    /\ calculate_hashes(config)["image"] # calculate_hashes(pre.config)["image"])

\* a network allow or network deny command has ended
NetworkEnded == pc = "idle" /\ last.op = "network"
\* the value the command was asked to set
NetworkRequested == pre.updates[1].value

\* C34: a network command on a document whose permissions.network differs
\* from the requested value ends with the value set and the change applied
\* through the plan {false, true, true}: the container removed and created
\* again, no image build; a command on a document that already holds the
\* value writes nothing and makes no collaborator call.
C34_NetworkSetsAndApplies ==
  /\ (NetworkEnded /\ ~NetworkReadRaises(pre.config)
        /\ NetworkSetting(pre.config) # NetworkRequested
        /\ ~ApplyUpdates(pre.config, pre.updates).raised)
       => /\ NetworkSetting(config) = NetworkRequested
          /\ plan = [rebuild |-> FALSE, recreate |-> TRUE, reintegrate |-> TRUE]
          /\ "create" \in CallNames
          /\ "build" \notin CallNames
  /\ (NetworkEnded /\ ~NetworkReadRaises(pre.config)
        /\ NetworkSetting(pre.config) = NetworkRequested)
       => /\ config = pre.config /\ needsApply = pre.needsApply
          /\ stateFile = pre.stateFile /\ calls = <<>>

\* a run command has ended
RunEnded == pc = "idle" /\ last.op = "run"
\* the positions of the calls that started the container
Starts == {i \in 1..Len(calls) : calls[i] = Call("start", TRUE)}

RestoreEnded == pc = "idle" /\ last.op = "restore" /\ last.outcome # "no_config"

\* C36: a restore that finds the container reported as running, exited or
\* created returns False and calls nothing but the status query, leaving
\* container and image as they were; the image is pulled only when there was
\* no local image; podman create is called only with a local image at hand,
\* and a container is created only when there was none.
C36_RestoreOnlyWhenMissing ==
  RestoreEnded =>
    /\ (calls[1].ok /\ before.container /\ before.status \in {"running", "exited", "created"})
         => /\ last.outcome = "false" /\ calls = <<Call("ps", TRUE)>>
            /\ Found = before
    /\ "pull" \in CallNames => ~before.image
    /\ "create" \in CallNames =>
         before.image \/ Call("pull", TRUE) \in {calls[i] : i \in 1..Len(calls)}
    /\ Call("create", TRUE) \in {calls[i] : i \in 1..Len(calls)}
         => ~before.container /\ container /\ image /\ last.outcome = "true"
    /\ last.outcome = "true" => ~before.container /\ container

\* the container and the local image were gone, the image was pulled from the
\* registry and the container created from it
C36_Witness ==
  /\ RestoreEnded /\ last.outcome = "true"
  /\ ~before.container /\ ~before.image
  /\ calls = <<Call("ps", TRUE), Call("pull", TRUE), Call("create", TRUE)>>
  /\ container /\ image /\ status = "created"

\* a call of run_post_install_hooks that had a script has ended
HooksEnded == pc = "idle" /\ last.op = "hooks" /\ last.outcome # "no_hooks"

\* C37: when run_post_install_hooks has started the container for the
\* script, podman stop is called before the function ends, also when the
\* script failed, so that a container found stopped is left stopped.
C37_HooksLeaveRunState ==
  (/\ HooksEnded /\ calls[1] = Call("ps", TRUE)
   /\ before.container /\ before.status = "exited"
   /\ Call("start", TRUE) \in {calls[i] : i \in 1..Len(calls)})
    => "stop" \in CallNames

\* an image rm command has ended
ImageRmEnded == pc = "idle" /\ last.op = "image_rm"
\* the registry digest a state file holds; None when it holds none
SavedDigest(file) ==
  IF SavedHashesGetRaises(file) THEN NoneDigest
  ELSE Get(get_last_applied_hashes(file), STATE_KEY_REGISTRY_DIGEST)
\* the digests saved in the application's and in the base image's directory
\* when the command started
AppSaved == SavedDigest(pre.stateFile)
ImageSaved == IF imageDir THEN SavedDigest(before.imageState) ELSE NoneDigest
\* the state file without its registry digest
WithoutDigest(file) == [file EXCEPT !.hashes[STATE_KEY_REGISTRY_DIGEST] = Missing]

PruneEnded == pc = "idle" /\ last.op = "prune"

\* C39: image prune deletes the manifest of a registry image only when no
\* application directory with a config.yml and no base-image directory
\* bears its name; a dry run deletes no manifest and changes no state file.
C39_PruneKeepsConfigured ==
  PruneEnded =>
    /\ Call("delete", TRUE) \in {calls[i] : i \in 1..Len(calls)}
         => ~pre.configDir /\ ~imageDir
    /\ last.outcome = "dry_run"
         => /\ "delete" \notin CallNames
            /\ stateFile = pre.stateFile /\ imageState = before.imageState
            /\ registry = before.registry

====
